---------------------------- MODULE Spec2Model ----------------------------
(***************************************************************************)
(* Provider registry, fallback chain construction and fallback executor of *)
(* apps/server/src/providers/provider-factory.ts; the SSRF guard and the   *)
(* model mapper of libs/types/src/provider-profile.ts; the operations of   *)
(* the provider profile service that write the profile list, and its       *)
(* connection test; and the two translators, openai-proxy-provider.ts      *)
(* with its stream decoding and anthropic-proxy-provider.ts, of            *)
(* apps/server/src/providers.                                              *)
(*                                                                         *)
(* Strings are sequences of one-character strings, so that toLowerCase,    *)
(* startsWith and includes are computed character by character.            *)
(***************************************************************************)
EXTENDS Integers, Sequences, FiniteSets, TLC

VARIABLES
    registry,    \* providerRegistry: Map<string, ProviderRegistration>, in insertion order
    regCount,    \* number of registerProvider calls made after module load
    regLog,      \* every registerProvider call made so far, in call order
    lastCall,    \* the last synchronous factory call and what it returned
    pc,          \* executeWithFallback: "Pending", "Trying", "Succeeded", "Failed"
    modelId,     \* executeWithFallback: argument modelId
    profiles,    \* executeWithFallback: argument profiles
    executor,    \* executeWithFallback: argument executor, by chain position
    providers,   \* executeWithFallback: const providers
    i,           \* executeWithFallback: loop index (0-based, as in the source)
    lastError,   \* executeWithFallback: let lastError
    invoked,     \* chain positions (0-based) on which executor was called, in call order
    inFlight,    \* chain positions whose executor promise is not settled yet
    logs,        \* records written through logger.debug / logger.warn
    outcome,     \* what the executeWithFallback promise settled with
    store,       \* settings.providerProfiles as the settings service holds it
    svc,         \* ProviderProfileService: each call's position, arguments and locals
    uuidCount,   \* number of ids randomUUID has handed out
    serviceLog,  \* records written through the service's logger.info
    test,        \* testConnection / testProfileConnection: position, profile, timer, result
    streamPc,    \* executeQuery: "idle", "fetch", "read", "query", "yield", "completed",
                 \* "returned", "failed"
    body,        \* executeQuery: the body of the response, as the server sends it
    readPos,     \* executeQuery: how much of the body reader.read() has handed over
    buffer,      \* executeQuery: let buffer
    accumulatedContent,    \* executeQuery: let accumulatedContent
    accumulatedToolCalls,  \* executeQuery: let accumulatedToolCalls, in insertion order
    pending,     \* executeQuery: messages of the lines read last that are yet to be yielded
    emitted,     \* the messages the generator has yielded, in order
    streamLog,   \* records written through the provider's logger.warn and logger.error
    request,     \* executeQuery: the provider's kind and profile, the options and process.env
    timer,       \* executeQuery: the timer of setTimeout(() => controller.abort(), timeout)
    signal,      \* executeQuery: the signal of the controller the call goes by
    elapsed,     \* whether profile.timeout has gone by since the call was started
    responseBody,  \* the stream response.body: "none", "readable", "closed", "errored"
    awaited,     \* what the operation awaited last settled with
    raised,      \* the error executeQuery has thrown, if any
    sdkOptions   \* the options query() of the SDK was called with, if any

vars ==
    <<registry, regCount, regLog, lastCall, pc, modelId, profiles, executor, providers,
      i, lastError, invoked, inFlight, logs, outcome,
      store, svc, uuidCount, serviceLog, test,
      streamPc, body, readPos, buffer, accumulatedContent, accumulatedToolCalls,
      pending, emitted, streamLog,
      request, timer, signal, elapsed, responseBody, awaited, raised, sdkOptions>>

streamVars ==
    <<streamPc, body, readPos, buffer, accumulatedContent, accumulatedToolCalls,
      pending, emitted, streamLog,
      request, timer, signal, elapsed, responseBody, awaited, raised, sdkOptions>>

serviceVars ==
    <<store, svc, uuidCount, serviceLog, test>>

regVars ==
    <<registry, regCount, regLog>>

execVars ==
    <<pc, modelId, profiles, executor, providers, i, lastError, invoked,
      inFlight, logs, outcome>>

----------------------------------------------------------------------------
(* Bounds *)

\* most messages the SDK's stream hands over in one call
MaxSdkMessages ==
    2

\* longest profile list handed to the factory
MaxProfiles ==
    2

\* most registerProvider calls made after module load
MaxRegister ==
    1

\* longest modelMapping list of a profile handed to the model mapper
MaxMapping ==
    2

\* most calls made on the profile service
MaxCalls ==
    2

\* most lines in the body of a streamed response
MaxLines ==
    2

----------------------------------------------------------------------------
(* Strings *)

UpperChars ==
    <<"A", "B", "C", "D", "E", "F", "G", "H", "I", "J", "K", "L", "M",
      "N", "O", "P", "Q", "R", "S", "T", "U", "V", "W", "X", "Y", "Z">>

LowerChars ==
    <<"a", "b", "c", "d", "e", "f", "g", "h", "i", "j", "k", "l", "m",
      "n", "o", "p", "q", "r", "s", "t", "u", "v", "w", "x", "y", "z">>

Digits ==
    {"0", "1", "2", "3", "4", "5", "6", "7", "8", "9"}

\* the characters that occur in model ids, provider names and URLs
Chars ==
    {UpperChars[j] : j \in 1..Len(UpperChars)}
        \cup {LowerChars[j] : j \in 1..Len(LowerChars)}
        \cup Digits
        \cup {"-", ".", ":", "/", "[", "]", "+"}

\* toLowerCase on one character: only the upper-case letters change
LowerCaseOf ==
    [c \in Chars |->
        IF \E j \in 1..Len(UpperChars) : UpperChars[j] = c
        THEN LowerChars[CHOOSE j \in 1..Len(UpperChars) : UpperChars[j] = c]
        ELSE c]

\* String.prototype.toLowerCase
ToLowerCase(s) ==
    [k \in 1..Len(s) |-> LowerCaseOf[s[k]]]

\* String.prototype.startsWith
StartsWith(s, p) ==
    /\ Len(p) <= Len(s)
    /\ SubSeq(s, 1, Len(p)) = p

\* String.prototype.includes
Includes(s, p) ==
    \E k \in 0..(Len(s) - Len(p)) : SubSeq(s, k + 1, k + Len(p)) = p

StrClaudeDash ==
    <<"c", "l", "a", "u", "d", "e", "-">>

StrOpus ==
    <<"o", "p", "u", "s">>

StrSonnet ==
    <<"s", "o", "n", "n", "e", "t">>

StrHaiku ==
    <<"h", "a", "i", "k", "u">>

StrGptDash ==
    <<"g", "p", "t", "-">>

StrO1 ==
    <<"o", "1">>

StrO3 ==
    <<"o", "3">>

StrCursorDash ==
    <<"c", "u", "r", "s", "o", "r", "-">>

StrClaude ==
    <<"c", "l", "a", "u", "d", "e">>

StrCursor ==
    <<"c", "u", "r", "s", "o", "r">>

StrAnthropic ==
    <<"a", "n", "t", "h", "r", "o", "p", "i", "c">>

StrGPT ==
    <<"G", "P", "T">>

\* the model ids the calls are made with
ModelIds ==
    { <<"c", "l", "a", "u", "d", "e", "-", "x">>,                 \* "claude-x"
      <<"C", "l", "a", "u", "d", "e", "-", "x">>,                 \* "Claude-x"
      <<"x", "O", "P", "U", "S">>,                                \* "xOPUS"
      <<"s", "o", "n", "n", "e", "t">>,                           \* "sonnet"
      <<"h", "a", "i", "k", "u", "-", "1">>,                      \* "haiku-1"
      <<"g", "p", "t", "-", "4">>,                                \* "gpt-4"
      <<"G", "P", "T", "-", "4">>,                                \* "GPT-4"
      <<"o", "1">>,                                               \* "o1"
      <<"O", "3", "x">>,                                          \* "O3x"
      <<"g", "p", "t", "-", "o", "p", "u", "s">>,                 \* "gpt-opus"
      <<"g", "p", "t", "4">>,                                     \* "gpt4"
      <<"c", "l", "a", "u", "d", "e">>,                           \* "claude"
      <<"c", "u", "r", "s", "o", "r", "-", "x">>,                 \* "cursor-x"
      <<"c", "u", "r", "s", "o", "r", "-", "o", "p", "u", "s">>,  \* "cursor-opus"
      <<"x", "-", "g", "p", "t", "-", "4">>,                      \* "x-gpt-4"
      <<>> }                                                      \* ""

----------------------------------------------------------------------------
(* Provider registry *)

\* a registration's optional priority is the empty set or a singleton
NoPriority ==
    {}

\* reg.priority ?? 0
Prio(reg) ==
    IF reg.priority = {} THEN 0 ELSE CHOOSE n \in reg.priority : TRUE

\* canHandleModel of the 'claude' registration
ClaudeCanHandleModel(model) ==
    \/ StartsWith(model, StrClaudeDash)
    \/ \E n \in {StrOpus, StrSonnet, StrHaiku} : Includes(model, n)

\* isCursorModel of @automaker/types: ids carrying the cursor- prefix
isCursorModel(model) ==
    StartsWith(model, StrCursorDash)

\* reg.canHandleModel?.(lowerModel); the predicate is named by a tag
CanHandle(tag, model) ==
    CASE tag = "claudeFamily"  -> ClaudeCanHandleModel(model)
      [] tag = "isCursorModel" -> isCursorModel(model)
      [] tag = "always"        -> TRUE
      [] OTHER                 -> FALSE   \* "undefined": no predicate registered

\* variant: a name that is registered already is left alone
registerProvider_keepFirst(reg, name, registration) ==
    LET key   == ToLowerCase(name)
        entry == [registration EXCEPT !.name = key]
    IN  IF \E k \in 1..Len(reg) : reg[k].name = key
        THEN reg
        ELSE Append(reg, entry)

\* registry.set(name.toLowerCase(), registration): an existing key keeps its
\* place in the Map's iteration order, a new key goes last
registerProvider(reg, name, registration) ==
    LET key   == ToLowerCase(name)
        entry == [registration EXCEPT !.name = key]
    IN  IF \E k \in 1..Len(reg) : reg[k].name = key
        THEN [k \in 1..Len(reg) |-> IF reg[k].name = key THEN entry ELSE reg[k]]
        ELSE Append(reg, entry)

\* the two registerProvider calls made when the module is loaded
BootCalls ==
    << [name |-> StrClaude,
        registration |-> [name |-> StrClaude, factory |-> "ClaudeProvider",
                          aliases |-> {StrAnthropic}, canHandleModel |-> "claudeFamily",
                          priority |-> {0}]],
       [name |-> StrCursor,
        registration |-> [name |-> StrCursor, factory |-> "CursorProvider",
                          aliases |-> {}, canHandleModel |-> "isCursorModel",
                          priority |-> {10}]] >>

\* the registry they leave
BootRegistry ==
    registerProvider(
        registerProvider(<<>>, BootCalls[1].name, BootCalls[1].registration),
        BootCalls[2].name, BootCalls[2].registration)

\* variant: an unstable sort, e goes in front of the elements of its priority
InsertByPriority_unstable(e, t) ==
    LET k == Cardinality({j \in 1..Len(t) : Prio(t[j]) > Prio(e)})
    IN  SubSeq(t, 1, k) \o <<e>> \o SubSeq(t, k + 1, Len(t))

\* one step of Array.prototype.sort's stable ordering: e goes behind every
\* element of the sorted prefix t whose priority is not lower
InsertByPriority(e, t) ==
    LET k == Cardinality({j \in 1..Len(t) : Prio(t[j]) >= Prio(e)})
    IN  SubSeq(t, 1, k) \o <<e>> \o SubSeq(t, k + 1, Len(t))

RECURSIVE SortByPriority(_)
\* Array.from(entries).sort((a, b) => (b.priority ?? 0) - (a.priority ?? 0))
SortByPriority(s) ==
    IF s = <<>> THEN <<>>
    ELSE InsertByPriority(s[Len(s)], SortByPriority(SubSeq(s, 1, Len(s) - 1)))

\* variant: one pass in which a registration matches by predicate or by prefix
getProviderNameForModel_onePass(model, reg) ==
    LET lowerModel    == ToLowerCase(model)
        registrations == SortByPriority(reg)
        matching      == {k \in 1..Len(registrations) :
                             \/ CanHandle(registrations[k].canHandleModel, lowerModel)
                             \/ StartsWith(lowerModel, registrations[k].name \o <<"-">>)}
    IN  IF matching # {}
        THEN registrations[CHOOSE k \in matching : \A l \in matching : k <= l].name
        ELSE StrClaude

\* variant: the prefix phase tests the model id as given, not lower-cased
getProviderNameForModel_rawPrefix(model, reg) ==
    LET lowerModel    == ToLowerCase(model)
        registrations == SortByPriority(reg)
        byPredicate   == {k \in 1..Len(registrations) :
                             CanHandle(registrations[k].canHandleModel, lowerModel)}
        byPrefix      == {k \in 1..Len(registrations) :
                             StartsWith(model, registrations[k].name \o <<"-">>)}
        first(S)      == CHOOSE k \in S : \A l \in S : k <= l
    IN  IF byPredicate # {} THEN registrations[first(byPredicate)].name
        ELSE IF byPrefix # {} THEN registrations[first(byPrefix)].name
        ELSE StrClaude

\* ProviderFactory.getProviderNameForModel
getProviderNameForModel(model, reg) ==
    LET lowerModel    == ToLowerCase(model)
        registrations == SortByPriority(reg)
        byPredicate   == {k \in 1..Len(registrations) :
                             CanHandle(registrations[k].canHandleModel, lowerModel)}
        byPrefix      == {k \in 1..Len(registrations) :
                             StartsWith(lowerModel, registrations[k].name \o <<"-">>)}
        first(S)      == CHOOSE k \in S : \A l \in S : k <= l
    IN  IF byPredicate # {} THEN registrations[first(byPredicate)].name
        ELSE IF byPrefix # {} THEN registrations[first(byPrefix)].name
        ELSE StrClaude

\* reg.factory(): a fresh instance of the registered class
Instance(factory) ==
    [kind |-> "registered", factory |-> factory]

NullProvider ==
    [kind |-> "null"]

getProviderByName(name, reg) ==
    LET lowerName == ToLowerCase(name)
        direct    == {k \in 1..Len(reg) : reg[k].name = lowerName}
        byAlias   == {k \in 1..Len(reg) : lowerName \in reg[k].aliases}
        first(S)  == CHOOSE k \in S : \A l \in S : k <= l
    IN  IF direct # {} THEN Instance(reg[first(direct)].factory)
        ELSE IF byAlias # {} THEN Instance(reg[first(byAlias)].factory)
        ELSE NullProvider

\* the Error thrown by getProviderForModel
NoProviderError(model) ==
    [kind |-> "Error", message |-> "No provider found for model", model |-> model]

\* variant: the resolved name is not looked up, 'claude' is always taken
getProviderForModel_alwaysClaude(model, reg) ==
    LET claudeReg == {k \in 1..Len(reg) : reg[k].name = StrClaude}
    IN  IF claudeReg # {}
        THEN Instance(reg[CHOOSE k \in claudeReg : TRUE].factory)
        ELSE NoProviderError(model)

\* returns a provider, or the Error it throws
getProviderForModel(model, reg) ==
    LET providerName == getProviderNameForModel(model, reg)
        provider     == getProviderByName(providerName, reg)
        claudeReg    == {k \in 1..Len(reg) : reg[k].name = StrClaude}
    IN  IF provider = NullProvider
        THEN IF claudeReg # {}
             THEN Instance(reg[CHOOSE k \in claudeReg : TRUE].factory)
             ELSE NoProviderError(model)
        ELSE provider

----------------------------------------------------------------------------
(* Provider profiles *)

ProfileTypes ==
    {"anthropic-compatible", "openai-compatible"}

ProfileIds ==
    <<"p1", "p2", "p3", "p4">>

\* the profiles that may stand at position k of a list of n with distinct ids
\* and distinct priorities, the priorities falling (as callers are expected to
\* sort them) or rising along the list
Profiles(k, n, falling) ==
    [id : {ProfileIds[k]}, type : ProfileTypes, isActive : BOOLEAN,
     priority : {IF falling THEN n + 1 - k ELSE k}]

RECURSIVE ProfileListsUpTo(_, _, _)
\* the first k profiles of such a list
ProfileListsUpTo(k, n, falling) ==
    IF k = 0 THEN {<<>>}
    ELSE {Append(l, p) : l \in ProfileListsUpTo(k - 1, n, falling),
                         p \in Profiles(k, n, falling)}

\* the profile lists the calls are made with
ProfileLists ==
    UNION {ProfileListsUpTo(n, n, falling) : n \in 0..MaxProfiles, falling \in BOOLEAN}

createProviderFromProfile(profile) ==
    IF profile.type = "anthropic-compatible"
    THEN [kind |-> "AnthropicProxyProvider", profile |-> profile]
    ELSE IF profile.type = "openai-compatible"
    THEN [kind |-> "OpenAIProxyProvider", profile |-> profile]
    ELSE [kind |-> "Error", message |-> "Unknown provider profile type"]

\* variant: the model id is not lower-cased before it is classified
profileTypeOf_caseSensitive(model) ==
    IF \/ StartsWith(model, StrClaudeDash)
       \/ \E n \in {StrOpus, StrSonnet, StrHaiku} : Includes(model, n)
    THEN "anthropic-compatible"
    ELSE IF \/ StartsWith(model, StrGptDash)
            \/ StartsWith(model, StrO1)
            \/ StartsWith(model, StrO3)
    THEN "openai-compatible"
    ELSE "null"

\* let profileType of getFallbackProviders: the profile type the model id calls for
profileTypeOf(model) ==
    LET lowerModel == ToLowerCase(model)
    IN  IF \/ StartsWith(lowerModel, StrClaudeDash)
           \/ \E n \in {StrOpus, StrSonnet, StrHaiku} : Includes(lowerModel, n)
        THEN "anthropic-compatible"
        ELSE IF \/ StartsWith(lowerModel, StrGptDash)
                \/ StartsWith(lowerModel, StrO1)
                \/ StartsWith(lowerModel, StrO3)
        THEN "openai-compatible"
        ELSE "null"

\* variant: the filter forgets isActive
matchingProfiles_ignoreActive(profileType, profs) ==
    LET keep(p) == p.type = profileType
    IN  SelectSeq(profs, keep)

\* variant: the filtered profiles are sorted again by priority, highest first
matchingProfiles_byPriority(profileType, profs) ==
    LET keep(p) == p.type = profileType /\ p.isActive
        kept    == SelectSeq(profs, keep)
        range   == {kept[j] : j \in 1..Len(kept)}
    IN  [k \in 1..Len(kept) |->
            CHOOSE p \in range :
                Cardinality({q \in range : q.priority > p.priority}) = k - 1]

\* profiles.filter((p) => p.type === profileType && p.isActive)
matchingProfiles(profileType, profs) ==
    LET keep(p) == p.type = profileType /\ p.isActive
    IN  SelectSeq(profs, keep)

\* variant: the standard provider is pushed only when no profile matched
getFallbackProviders_noDefault(model, profs, reg) ==
    LET profileType == profileTypeOf(model)
        matching    == IF profileType # "null"
                       THEN matchingProfiles(profileType, profs)
                       ELSE <<>>
        pushed      == [k \in 1..Len(matching) |-> createProviderFromProfile(matching[k])]
    IN  IF pushed # <<>> THEN pushed ELSE <<getProviderForModel(model, reg)>>

\* the chain; getProviderForModel's Error, if it throws, stands in the last place
getFallbackProviders(model, profs, reg) ==
    LET profileType == profileTypeOf(model)
        matching    == IF profileType # "null"
                       THEN matchingProfiles(profileType, profs)
                       ELSE <<>>
        pushed      == [k \in 1..Len(matching) |-> createProviderFromProfile(matching[k])]
    IN  Append(pushed, getProviderForModel(model, reg))

\* getFallbackProviders throws what getProviderForModel throws
Throws(chain) ==
    chain[Len(chain)].kind = "Error"

----------------------------------------------------------------------------
(* JavaScript values *)

\* null
Null ==
    [kind |-> "null"]

----------------------------------------------------------------------------
(* SSRF guard *)

\* the base URLs the guard is called with: a scheme part, a host, a port part
\* and a path; hosts are written as the URL parser serialises them, but for
\* letter case
UrlSchemeParts ==
    {<<"h", "t", "t", "p", ":", "/", "/">>, <<"h", "t", "t", "p", "s", ":", "/", "/">>, <<"H", "T", "T", "P", ":", "/", "/">>, <<"h", "t", "t", "p", ":">>, <<"f", "t", "p", ":", "/", "/">>, <<>>}

UrlHosts ==
    {<<"l", "o", "c", "a", "l", "h", "o", "s", "t">>,
     <<"L", "O", "C", "A", "L", "H", "O", "S", "T">>,
     <<"1", "2", "7", ".", "0", ".", "0", ".", "1">>,
     <<"1", "0", ".", "0", ".", "0", ".", "1">>,
     <<"1", "7", "2", ".", "1", "6", ".", "0", ".", "1">>,
     <<"1", "7", "2", ".", "3", "2", ".", "0", ".", "1">>,
     <<"1", "9", "2", ".", "1", "6", "8", ".", "0", ".", "1">>,
     <<"1", "6", "9", ".", "2", "5", "4", ".", "0", ".", "1">>,
     <<"0", ".", "0", ".", "0", ".", "0">>,
     <<"[", ":", ":", "1", "]">>,
     <<"[", "f", "e", "8", "0", ":", ":", "1", "]">>,
     <<"[", "f", "c", "0", "0", ":", ":", "1", "]">>,
     <<"[", "f", "d", "0", "0", ":", ":", "1", "]">>,
     <<"[", "f", "d", "1", "2", ":", ":", "1", "]">>,
     <<"e", "x", "a", "m", "p", "l", "e", ".", "c", "o", "m">>,
     <<"8", ".", "8", ".", "8", ".", "8">>,
     <<"l", "o", "c", "a", "l", "h", "o", "s", "t", ".", "e", "x", "a", "m", "p", "l", "e", ".", "c", "o", "m">>,
     <<>>}

UrlPortParts ==
    {<<>>, <<":", "8", "0", "8", "0">>}

UrlPathParts ==
    {<<>>, <<"/", "v", "1">>}

Urls ==
    {s \o h \o p \o q : s \in UrlSchemeParts, h \in UrlHosts,
                         p \in UrlPortParts, q \in UrlPathParts}

\* String.prototype.indexOf for one character, counted from 1; 0 when absent
IndexOf(s, c) ==
    IF \E k \in 1..Len(s) : s[k] = c
    THEN CHOOSE k \in 1..Len(s) : s[k] = c /\ \A l \in 1..(k - 1) : s[l] # c
    ELSE 0

\* the string from position k on
From(s, k) ==
    SubSeq(s, k, Len(s))

IsDigits(s) ==
    /\ Len(s) > 0
    /\ \A k \in 1..Len(s) : s[k] \in Digits

RECURSIVE Split(_, _)
\* String.prototype.split on one character
Split(s, c) ==
    LET k == IndexOf(s, c)
    IN  IF k = 0 THEN <<s>> ELSE <<SubSeq(s, 1, k - 1)>> \o Split(From(s, k + 1), c)

RECURSIVE SkipSlashes(_)
SkipSlashes(s) ==
    IF Len(s) > 0 /\ s[1] = "/" THEN SkipSlashes(Tail(s)) ELSE s

\* what new URL(url) throws
InvalidUrl ==
    [kind |-> "TypeError", message |-> "Invalid URL"]

SpecialSchemes ==
    {<<"h", "t", "t", "p">>, <<"h", "t", "t", "p", "s">>, <<"f", "t", "p">>}

\* a scheme starts with a letter and goes on with letters, digits, '+', '-', '.'
IsScheme(s) ==
    /\ Len(s) > 0
    /\ s[1] \notin Digits \cup {"-", ".", "+"}
    /\ \A k \in 1..Len(s) : s[k] \notin {"/", "[", "]", ":"}

\* host and port of an authority: the port follows the ':' behind the host,
\* which for a bracketed address is the one behind the ']'
HostOf(authority) ==
    LET close == IndexOf(authority, "]")
        colon == IF close > 0
                 THEN (IF close < Len(authority) THEN close + 1 ELSE 0)
                 ELSE IndexOf(authority, ":")
    IN  IF colon = 0 THEN [host |-> authority, port |-> <<>>, hasPort |-> FALSE]
        ELSE [host |-> SubSeq(authority, 1, colon - 1),
              port |-> From(authority, colon + 1), hasPort |-> TRUE]

\* new URL(url) without a base: the fields the guard reads, or what is thrown
ParseURL(url) ==
    LET colon  == IndexOf(url, ":")
        scheme == ToLowerCase(SubSeq(url, 1, colon - 1))
        rest   == From(url, colon + 1)
    IN  IF colon = 0 \/ ~IsScheme(scheme) THEN InvalidUrl
        ELSE IF scheme \notin SpecialSchemes
        THEN [kind |-> "URL", protocol |-> scheme \o <<":">>, hostname |-> <<>>]
        ELSE LET after     == SkipSlashes(rest)
                 slash     == IndexOf(after, "/")
                 authority == IF slash = 0 THEN after ELSE SubSeq(after, 1, slash - 1)
                 hp        == HostOf(authority)
             IN  IF hp.host = <<>> \/ (hp.hasPort /\ hp.port # <<>> /\ ~IsDigits(hp.port))
                 THEN InvalidUrl
                 ELSE [kind |-> "URL", protocol |-> scheme \o <<":">>,
                       hostname |-> ToLowerCase(hp.host)]

\* /^<first>\.\d+\.\d+\.\d+$/
DottedQuadOf(first, hostname) ==
    LET parts == Split(hostname, ".")
    IN  /\ Len(parts) = 4
        /\ parts[1] = first
        /\ \A k \in 2..4 : IsDigits(parts[k])

\* /^<first>\.<second>\.\d+\.\d+$/
DottedPairOf(first, second, hostname) ==
    LET parts == Split(hostname, ".")
    IN  /\ Len(parts) = 4
        /\ parts[1] = first
        /\ parts[2] = second
        /\ \A k \in 3..4 : IsDigits(parts[k])

\* (1[6-9]|2\d|3[01])
IsSixteenToThirtyOne(s) ==
    /\ Len(s) = 2
    /\ \/ s[1] = "1" /\ s[2] \in {"6", "7", "8", "9"}
       \/ s[1] = "2" /\ s[2] \in Digits
       \/ s[1] = "3" /\ s[2] \in {"0", "1"}

\* /^\[?<prefix>/i
BracketedPrefix(prefix, hostname) ==
    \/ StartsWith(ToLowerCase(hostname), prefix)
    \/ StartsWith(ToLowerCase(hostname), <<"[">> \o prefix)

\* internalPatterns[k].test(hostname), the patterns in the order of the list
PatternTest(k, hostname) ==
    CASE k = 1  -> ToLowerCase(hostname) = <<"l", "o", "c", "a", "l", "h", "o", "s", "t">>
      [] k = 2  -> DottedQuadOf(<<"1", "2", "7">>, hostname)
      [] k = 3  -> hostname \in {<<":", ":", "1">>, <<"[", ":", ":", "1">>, <<":", ":", "1", "]">>, <<"[", ":", ":", "1", "]">>}
      [] k = 4  -> DottedQuadOf(<<"1", "0">>, hostname)
      [] k = 5  -> /\ Len(Split(hostname, ".")) = 4
                   /\ IsSixteenToThirtyOne(Split(hostname, ".")[2])
                   /\ DottedPairOf(<<"1", "7", "2">>, Split(hostname, ".")[2], hostname)
      [] k = 6  -> DottedPairOf(<<"1", "9", "2">>, <<"1", "6", "8">>, hostname)
      [] k = 7  -> DottedPairOf(<<"1", "6", "9">>, <<"2", "5", "4">>, hostname)
      [] k = 8  -> hostname = <<"0", ".", "0", ".", "0", ".", "0">>
      [] k = 9  -> BracketedPrefix(<<"f", "e", "8", "0", ":">>, hostname)
      [] k = 10 -> BracketedPrefix(<<"f", "c", "0", "0", ":">>, hostname)
      [] k = 11 -> BracketedPrefix(<<"f", "d", "0", "0", ":">>, hostname)

InternalPatternCount ==
    11

ProtocolNotAllowed ==
    [safe |-> FALSE, reason |-> "Only HTTP and HTTPS protocols are allowed"]

InternalNotAllowed(hostname) ==
    [safe |-> FALSE, reason |-> "Internal/private addresses are not allowed",
     hostname |-> hostname]

InvalidUrlResult ==
    [safe |-> FALSE, reason |-> "Invalid URL"]

Bypassed ==
    [safe |-> TRUE, bypassedByUser |-> TRUE]

Safe ==
    [safe |-> TRUE]

\* variant: the bypass flag is looked at before the protocol
validateParsed_bypassFirst(parsed, allowInternalUrls) ==
    IF allowInternalUrls THEN Bypassed
    ELSE IF parsed.protocol \notin {<<"h", "t", "t", "p", ":">>, <<"h", "t", "t", "p", "s", ":">>} THEN ProtocolNotAllowed
    ELSE IF \E k \in 1..InternalPatternCount : PatternTest(k, ToLowerCase(parsed.hostname))
    THEN InternalNotAllowed(ToLowerCase(parsed.hostname))
    ELSE Safe

\* the body of the try block
validateParsed(parsed, allowInternalUrls) ==
    IF parsed.protocol \notin {<<"h", "t", "t", "p", ":">>, <<"h", "t", "t", "p", "s", ":">>}
    THEN ProtocolNotAllowed
    ELSE LET hostname == ToLowerCase(parsed.hostname)
         IN  IF \E k \in 1..InternalPatternCount : PatternTest(k, hostname)
             THEN (IF allowInternalUrls THEN Bypassed ELSE InternalNotAllowed(hostname))
             ELSE Safe

\* variant: no catch block, what new URL throws leaves the function
validateBaseUrlSsrf_noCatch(url, allowInternalUrls) ==
    LET parsed == ParseURL(url)
    IN  IF parsed.kind = "TypeError" THEN parsed
        ELSE validateParsed(parsed, allowInternalUrls)

\* validateBaseUrlSsrf(url, allowInternalUrls = false)
validateBaseUrlSsrf(url, allowInternalUrls) ==
    LET parsed == ParseURL(url)
    IN  IF parsed.kind = "TypeError" THEN InvalidUrlResult
        ELSE validateParsed(parsed, allowInternalUrls)

----------------------------------------------------------------------------
(* Model mapper *)

\* the model names the mapper is called with and the mappings are made of
MapperNames ==
    {<<"a">>, <<"A">>, <<"b">>}

ModelMappingEntries ==
    [localModel : MapperNames, remoteModel : MapperNames]

RECURSIVE MappingsOfLen(_)
MappingsOfLen(n) ==
    IF n = 0 THEN {<<>>}
    ELSE {Append(l, e) : l \in MappingsOfLen(n - 1), e \in ModelMappingEntries}

\* the modelMapping lists of the profiles the mapper is called with
ModelMappings ==
    UNION {MappingsOfLen(n) : n \in 0..MaxMapping}

RECURSIVE FindLocal(_, _, _)
\* modelMapping.find((m) => m.localModel.toLowerCase() === localModel.toLowerCase()),
\* from index k on: the index found, or 0 for undefined
FindLocal(mapping, localModel, k) ==
    IF k > Len(mapping) THEN 0
    ELSE IF ToLowerCase(mapping[k].localModel) = ToLowerCase(localModel) THEN k
    ELSE FindLocal(mapping, localModel, k + 1)

RECURSIVE FindRemote(_, _, _)
\* modelMapping.find((m) => m.remoteModel.toLowerCase() === remoteModel.toLowerCase())
FindRemote(mapping, remoteModel, k) ==
    IF k > Len(mapping) THEN 0
    ELSE IF ToLowerCase(mapping[k].remoteModel) = ToLowerCase(remoteModel) THEN k
    ELSE FindRemote(mapping, remoteModel, k + 1)

\* variant: the local names are compared as they are
mapModelToRemote_caseSensitive(localModel, profile) ==
    LET found == {k \in 1..Len(profile.modelMapping) :
                     profile.modelMapping[k].localModel = localModel}
    IN  IF found = {} THEN localModel
        ELSE profile.modelMapping[CHOOSE k \in found : \A l \in found : k <= l].remoteModel

\* mapping?.remoteModel ?? localModel
mapModelToRemote(localModel, profile) ==
    LET k == FindLocal(profile.modelMapping, localModel, 1)
    IN  IF k = 0 THEN localModel ELSE profile.modelMapping[k].remoteModel

\* variant: the local name found is handed back in lower case
mapModelFromRemote_lowerCased(remoteModel, profile) ==
    LET k == FindRemote(profile.modelMapping, remoteModel, 1)
    IN  IF k = 0 THEN remoteModel ELSE ToLowerCase(profile.modelMapping[k].localModel)

\* mapping?.localModel ?? remoteModel
mapModelFromRemote(remoteModel, profile) ==
    LET k == FindRemote(profile.modelMapping, remoteModel, 1)
    IN  IF k = 0 THEN remoteModel ELSE profile.modelMapping[k].localModel

----------------------------------------------------------------------------
(* Profile service *)

\* the calls made on the service, numbered in the order they are made
Callers ==
    1..MaxCalls

\* the call of reorderProfiles, numbered after them
ReorderCall ==
    MaxCalls + 1

ServiceCalls ==
    Callers \cup {ReorderCall}

IdleCall ==
    [pc |-> "idle"]

\* an optional field that is not given
Unset ==
    {}

\* opt ?? otherwise
OrElse(opt, otherwise) ==
    IF opt = Unset THEN otherwise ELSE CHOOSE x \in opt : TRUE

DEFAULT_PROVIDER_TIMEOUT ==
    30000

\* the base URLs of the inputs: a loopback address, a public host, and a
\* scheme that is not allowed
ServiceUrls ==
    {<<"h", "t", "t", "p", ":", "/", "/", "1", "2", "7", ".", "0", ".", "0", ".", "1", ":", "8", "0", "8", "0">>,
     <<"h", "t", "t", "p", "s", ":", "/", "/", "e", "x", "a", "m", "p", "l", "e", ".", "c", "o", "m">>,
     <<"f", "t", "p", ":", "/", "/", "l", "o", "c", "a", "l", "h", "o", "s", "t">>}

\* CreateProviderProfileInput, the fields createProfile decides on
CreateInputs ==
    [type : {"openai-compatible"}, baseUrl : ServiceUrls,
     allowInternalUrls : {Unset, {TRUE}, {FALSE}},
     isActive : {Unset}, priority : {Unset, {5}}, timeout : {Unset},
     rateLimitRpm : {Unset}]

\* settingsService.getGlobalSettings(): the settings as stored
getGlobalSettings(stored) ==
    [providerProfiles |-> stored]

\* settingsService.updateGlobalSettings(partial): the profile list after it
updateGlobalSettings(stored, partial) ==
    partial.providerProfiles

\* Math.max(...profiles.map((p) => p.priority)) of a non-empty list
MaxPriorityOf(list) ==
    CHOOSE n \in {list[k].priority : k \in 1..Len(list)} :
        \A k \in 1..Len(list) : list[k].priority <= n

\* variant: the result of the guard is not looked at
createProfileGuard_unchecked(input) ==
    Null

\* createProfile up to its first await: what it throws, or null
createProfileGuard(input) ==
    LET ssrfResult == validateBaseUrlSsrf(input.baseUrl, OrElse(input.allowInternalUrls, FALSE))
    IN  IF ~ssrfResult.safe
        THEN [kind |-> "Error", message |-> "Invalid base URL", reason |-> ssrfResult.reason]
        ELSE Null

\* variant: the priority that is not given is the length of the list plus one
NewProfile_byCount(input, list, id) ==
    [id |-> id, type |-> input.type, baseUrl |-> input.baseUrl,
     isActive |-> OrElse(input.isActive, TRUE),
     priority |-> OrElse(input.priority, Len(list) + 1),
     timeout |-> OrElse(input.timeout, DEFAULT_PROVIDER_TIMEOUT),
     allowInternalUrls |-> OrElse(input.allowInternalUrls, FALSE),
     rateLimitRpm |-> OrElse(input.rateLimitRpm, 0)]

\* the profile createProfile builds from its input and the list it has read
NewProfile(input, list, id) ==
    LET maxPriority == IF Len(list) > 0 THEN MaxPriorityOf(list) ELSE 0
    IN  [id |-> id, type |-> input.type, baseUrl |-> input.baseUrl,
         isActive |-> OrElse(input.isActive, TRUE),
         priority |-> OrElse(input.priority, maxPriority + 1),
         timeout |-> OrElse(input.timeout, DEFAULT_PROVIDER_TIMEOUT),
         allowInternalUrls |-> OrElse(input.allowInternalUrls, FALSE),
         rateLimitRpm |-> OrElse(input.rateLimitRpm, 0)]

\* the inputs of the profiles that are reordered: a public host, with and
\* without a priority
ReorderInputs ==
    {input \in CreateInputs :
        /\ createProfileGuard(input) = Null
        /\ input.allowInternalUrls = Unset}

\* the lists of ids reorderProfiles is called with: ids of stored profiles
\* and ids of none, in any order, an id twice included
OrderedIdLists ==
    UNION {[1..n -> 1..(MaxCalls + 1)] : n \in 0..MaxCalls}

\* orderedIds.indexOf(id): the first place of the id, counted from 0, or -1
indexOf(orderedIds, id) ==
    IndexOf(orderedIds, id) - 1

\* variant: the priority of a listed profile is its place in the list
ReorderedProfile_byIndex(p, orderedIds) ==
    LET newPriority == indexOf(orderedIds, p.id)
    IN  IF newPriority = -1
        THEN p
        ELSE [p EXCEPT !.priority = newPriority]

\* the callback of profiles.map in reorderProfiles; updatedAt is not among
\* the fields of the profiles kept here
ReorderedProfile(p, orderedIds) ==
    LET newPriority == indexOf(orderedIds, p.id)
    IN  IF newPriority = -1
        THEN p
        ELSE [p EXCEPT !.priority = Len(orderedIds) - newPriority]

\* one more profile in a list sorted by priority, highest first: it comes
\* after the profiles that do not have a lower priority
InsertProfile(sorted, p) ==
    LET n == Cardinality({k \in 1..Len(sorted) : sorted[k].priority >= p.priority})
    IN  SubSeq(sorted, 1, n) \o <<p>> \o SubSeq(sorted, n + 1, Len(sorted))

\* updatedProfiles.sort((a, b) => b.priority - a.priority), a stable sort
RECURSIVE SortProfiles(_)
SortProfiles(list) ==
    IF list = <<>>
    THEN <<>>
    ELSE InsertProfile(SortProfiles(SubSeq(list, 1, Len(list) - 1)), list[Len(list)])

\* the list reorderProfiles writes and returns
reorderProfiles(list, orderedIds) ==
    SortProfiles([k \in 1..Len(list) |-> ReorderedProfile(list[k], orderedIds)])

----------------------------------------------------------------------------
(* OpenAI-compatible stream decoding *)

\* The response body is a sequence of pieces of text; a read of the body
\* hands over some of them, so a line can arrive in parts.

\* the line feed the buffer is split on
LF ==
    [t |-> "lf"]

\* 'data: ', the six characters a data line starts with
DataPrefix ==
    [t |-> "data: "]

\* the payload '[DONE]'
DoneText ==
    [t |-> "[DONE]"]

\* a payload JSON.parse turns into the value given
JsonText(value) ==
    [t |-> "json", value |-> value]

\* a payload JSON.parse throws on
GarbageText ==
    [t |-> "garbage"]

\* a line of another SSE field
CommentText ==
    [t |-> ": keep-alive"]

\* a chunk with one choice
ChunkOf(content, tool_calls, finish_reason) ==
    [choices |-> << [delta |-> [content |-> content, tool_calls |-> tool_calls],
                     finish_reason |-> finish_reason] >>]

\* a tool call delta; fields that are not given are Unset
ToolDelta(index, id, name, arguments) ==
    [index |-> index, id |-> id, name |-> name, arguments |-> arguments]

\* the chunks the server sends
Chunks ==
    { ChunkOf({<<"H", "i">>}, Unset, "null"),
      ChunkOf({<<"!">>}, Unset, "stop"),
      ChunkOf({<<>>}, Unset, "null"),
      ChunkOf(Unset, {<< ToolDelta(0, {<<"c", "1">>}, {<<"f">>}, {<<"{">>}) >>}, "null"),
      ChunkOf(Unset, {<< ToolDelta(0, Unset, Unset, {<<"}">>}) >>}, "tool_calls"),
      [choices |-> <<>>],
      ChunkOf({<<"?">>}, {<<Null>>}, "stop"),
      ChunkOf(Unset, {<< ToolDelta(0, {<<"c", "9">>}, Unset, {<<"}">>}),
                         ToolDelta(1, {<<"c", "2">>}, Unset, Unset) >>}, "tool_calls"),
      ChunkOf(Unset, {<< ToolDelta(1, Unset, {<<"g">>}, Unset) >>}, "stop") }

\* the lines of a body, without their line feed
BodyLines ==
    {<<DataPrefix, JsonText(chunk)>> : chunk \in Chunks}
        \cup {<<DataPrefix, DoneText>>, <<DataPrefix, GarbageText>>, <<CommentText>>, <<>>}

RECURSIVE BodiesOfLen(_)
\* the bodies of n lines, each followed by a line feed
BodiesOfLen(n) ==
    IF n = 0 THEN {<<>>}
    ELSE {b \o line \o <<LF>> : b \in BodiesOfLen(n - 1), line \in BodyLines}

\* data: {... "delta":{"content":"Hi"} ...}\n\ndata: [DONE]\n\n
GreetingBody ==
    <<DataPrefix, JsonText(ChunkOf({<<"H", "i">>}, Unset, "null")), LF, LF,
      DataPrefix, DoneText, LF, LF>>

\* the response bodies: lines ended by a line feed, where the body may break
\* off within a last line, and the greeting
Bodies ==
    LET whole == UNION {BodiesOfLen(n) : n \in 0..MaxLines}
    IN  whole \cup {b \o line : b \in UNION {BodiesOfLen(n) : n \in 0..(MaxLines - 1)},
                                line \in BodyLines \ {<<>>}}
              \cup {GreetingBody}

\* variant: the line a read breaks off in is not kept for the next read
SplitLines_dropsIncomplete(text) ==
    LET lines == Split(text, LF)
    IN  SubSeq(lines, 1, Len(lines) - 1) \o << <<>> >>

\* String.prototype.split('\n') of the buffer
SplitLines(text) ==
    Split(text, LF)

\* a text taken as a condition: undefined, null and '' are falsy
Truthy(opt) ==
    /\ opt # Unset
    /\ opt # {<<>>}

ValueOf(opt) ==
    CHOOSE x \in opt : TRUE

\* JSON.parse of a text: the value, or the SyntaxError thrown
JsonParse(data) ==
    IF Len(data) = 1 /\ data[1].t = "json"
    THEN [kind |-> "value", value |-> data[1].value]
    ELSE [kind |-> "SyntaxError"]

\* JSON.parse(toolCall.arguments): only '{}' is JSON among the argument texts
ParseArguments(arguments) ==
    IF arguments = <<"{", "}">>
    THEN [kind |-> "value", value |-> arguments]
    ELSE [kind |-> "SyntaxError"]

\* the assistant message with one text block
TextEvent(text) ==
    [type |-> "assistant", content |-> [type |-> "text", text |-> text]]

\* the assistant message with one tool_use block
ToolEvent(toolCall) ==
    LET parsed == ParseArguments(toolCall.arguments)
    IN  [type |-> "assistant",
         content |-> [type |-> "tool_use", name |-> toolCall.name,
                      tool_use_id |-> toolCall.id,
                      input |-> IF parsed.kind = "value"
                                THEN [parsed |-> parsed.value]
                                ELSE [raw |-> toolCall.arguments]]]

\* the final message
ResultEvent(text) ==
    [type |-> "result", subtype |-> "success", result |-> text]

\* variant: the text of a chunk takes the place of the text so far
AppendContent_replace(accumulated, text) ==
    text

\* accumulatedContent += choice.delta.content
AppendContent(accumulated, text) ==
    accumulated \o text

\* accumulatedToolCalls.get(index), or 0 when there is none: the Map is a
\* sequence of entries in insertion order
ToolCallAt(calls, index) ==
    IF \E k \in 1..Len(calls) : calls[k].index = index
    THEN CHOOSE k \in 1..Len(calls) : calls[k].index = index
    ELSE 0

\* variant: the id of a tool call is the first one that arrived
AccumulateToolDelta_firstId(calls, toolDelta) ==
    LET k        == ToolCallAt(calls, toolDelta.index)
        existing == IF k = 0
                    THEN [index |-> toolDelta.index, id |-> <<>>, name |-> <<>>,
                          arguments |-> <<>>]
                    ELSE calls[k]
        merged   == [index |-> toolDelta.index,
                     id |-> IF existing.id = <<>> /\ Truthy(toolDelta.id)
                            THEN ValueOf(toolDelta.id)
                            ELSE existing.id,
                     name |-> IF Truthy(toolDelta.name) THEN ValueOf(toolDelta.name)
                              ELSE existing.name,
                     arguments |-> IF Truthy(toolDelta.arguments)
                                   THEN existing.arguments \o ValueOf(toolDelta.arguments)
                                   ELSE existing.arguments]
    IN  IF k = 0 THEN Append(calls, merged) ELSE [calls EXCEPT ![k] = merged]

\* one tool call delta taken into accumulatedToolCalls
AccumulateToolDelta(calls, toolDelta) ==
    LET k        == ToolCallAt(calls, toolDelta.index)
        existing == IF k = 0
                    THEN [index |-> toolDelta.index, id |-> <<>>, name |-> <<>>,
                          arguments |-> <<>>]
                    ELSE calls[k]
        merged   == [index |-> toolDelta.index,
                     id |-> IF Truthy(toolDelta.id) THEN ValueOf(toolDelta.id)
                            ELSE existing.id,
                     name |-> IF Truthy(toolDelta.name) THEN ValueOf(toolDelta.name)
                              ELSE existing.name,
                     arguments |-> IF Truthy(toolDelta.arguments)
                                   THEN existing.arguments \o ValueOf(toolDelta.arguments)
                                   ELSE existing.arguments]
    IN  IF k = 0 THEN Append(calls, merged) ELSE [calls EXCEPT ![k] = merged]

\* toolDelta.index throws a TypeError on a toolDelta that is null
ThrowsOnDelta(toolDeltas) ==
    \E k \in 1..Len(toolDeltas) : toolDeltas[k] = Null

RECURSIVE AccumulateToolDeltas(_, _)
\* for (const toolDelta of choice.delta.tool_calls), as far as it gets
AccumulateToolDeltas(calls, toolDeltas) ==
    IF toolDeltas = <<>> \/ Head(toolDeltas) = Null THEN calls
    ELSE AccumulateToolDeltas(AccumulateToolDelta(calls, Head(toolDeltas)), Tail(toolDeltas))

RECURSIVE ToolEvents(_)
\* for (const [, toolCall] of accumulatedToolCalls): the messages yielded
ToolEvents(calls) ==
    IF calls = <<>> THEN <<>>
    ELSE (IF Head(calls).id # <<>> /\ Head(calls).name # <<>>
          THEN <<ToolEvent(Head(calls))>> ELSE <<>>) \o ToolEvents(Tail(calls))

\* the inner try block is left for its catch block while the choice is handled
ChoiceThrows(choice) ==
    /\ choice.delta.tool_calls # Unset
    /\ ThrowsOnDelta(ValueOf(choice.delta.tool_calls))

\* the body of the inner try block for one choice, as far as it gets; decoder
\* is the record of accumulatedContent, accumulatedToolCalls, the messages to
\* yield and the warnings logged
HandleChoice(decoder, choice) ==
    LET content  == choice.delta.content
        withText == IF Truthy(content)
                    THEN [decoder EXCEPT
                            !.accumulatedContent = AppendContent(@, ValueOf(content)),
                            !.out = Append(@, TextEvent(ValueOf(content)))]
                    ELSE decoder
        tools    == choice.delta.tool_calls
        withTool == IF tools # Unset /\ ValueOf(tools) # <<>>
                    THEN [withText EXCEPT
                            !.accumulatedToolCalls = AccumulateToolDeltas(@, ValueOf(tools))]
                    ELSE withText
    IN  IF ~ChoiceThrows(choice) /\ choice.finish_reason \in {"tool_calls", "stop"}
        THEN [withTool EXCEPT !.out = @ \o ToolEvents(withTool.accumulatedToolCalls)]
        ELSE withTool

\* logger.warn(`Failed to parse SSE chunk: ${data}`, parseError)
ParseWarning(data) ==
    [level |-> "warn", text |-> "Failed to parse SSE chunk", data |-> data]

\* the body of for (const line of lines)
ProcessLine(decoder, line) ==
    IF ~(Len(line) >= 1 /\ line[1] = DataPrefix) THEN decoder
    ELSE LET data == Tail(line)
         IN  IF data = <<DoneText>> THEN decoder
             ELSE LET parsed == JsonParse(data)
                  IN  IF parsed.kind = "SyntaxError"
                      THEN [decoder EXCEPT !.warnings = Append(@, ParseWarning(data))]
                      ELSE IF parsed.value.choices = <<>> THEN decoder
                      ELSE LET choice  == parsed.value.choices[1]
                               handled == HandleChoice(decoder, choice)
                           IN  IF ChoiceThrows(choice)
                               THEN [handled EXCEPT !.warnings = Append(@, ParseWarning(data))]
                               ELSE handled

RECURSIVE ProcessLines(_, _)
ProcessLines(decoder, lines) ==
    IF lines = <<>> THEN decoder
    ELSE ProcessLines(ProcessLine(decoder, Head(lines)), Tail(lines))

\* lines.pop()
Pop(lines) ==
    SubSeq(lines, 1, Len(lines) - 1)

----------------------------------------------------------------------------
(* Translators: what both executeQuery generators are called with and raise *)

\* the profile a provider is constructed with; profile.timeout may be absent
TranslatorProfile(type, timeout) ==
    [id |-> "p1", name |-> "Proxy", type |-> type,
     baseUrl |-> "https://proxy.example", apiKey |-> "sk-profile",
     modelMapping |-> <<>>, timeout |-> timeout]

TranslatorTimeouts ==
    {Unset, {5000}}

OpenAIProfiles ==
    {TranslatorProfile("openai-compatible", timeout) : timeout \in TranslatorTimeouts}

AnthropicProfiles ==
    {TranslatorProfile("anthropic-compatible", timeout) : timeout \in TranslatorTimeouts}

\* the tools a caller may name
CallerToolLists ==
    {<<>>, <<"Read">>}

\* the options executeQuery reads: allowedTools, mcpServers (the names of the
\* servers configured) and abortController, each of which may be absent
ExecuteOptions ==
    [allowedTools : {Unset} \cup {{tools} : tools \in CallerToolLists},
     mcpServers : {Unset, {{}}, {{"m"}}},
     abortController : {Unset, {"caller"}}]

\* the options of a call that names no tools and no servers
PlainOptions ==
    {options \in ExecuteOptions : options.allowedTools = Unset /\ options.mcpServers = Unset}

\* what can be thrown inside the try blocks
AbortError ==
    [name |-> "AbortError", message |-> "This operation was aborted", status |-> 0]

FetchFailed ==
    [name |-> "TypeError", message |-> "fetch failed", status |-> 0]

\* new Error(`OpenAI API error: ${response.status} ${response.statusText}...`)
ApiError(status) ==
    [name |-> "Error", message |-> "OpenAI API error", status |-> status]

\* new Error('No response body received from OpenAI proxy')
NoBodyError ==
    [name |-> "Error", message |-> "No response body received from OpenAI proxy",
     status |-> 0]

\* what the SDK's stream throws of its own
SdkError ==
    [name |-> "Error", message |-> "Claude Code process exited with code 1", status |-> 0]

\* the statuses of responses that are not ok
FailureStatuses ==
    {401, 429, 500}

ErrorTypes ==
    {"NetworkError", "TimeoutError", "AuthError", "RateLimitError", "ProtocolError",
     "ConfigurationError", "UpstreamError", "Aborted"}

\* classifyError of @automaker/utils: the kind of an error and whether it is
\* a rate limit
classifyError(error) ==
    LET type == IF error.name = "AbortError" THEN "Aborted"
                ELSE IF error.name = "TypeError" THEN "NetworkError"
                ELSE IF error.status \in {401, 403} THEN "AuthError"
                ELSE IF error.status = 429 THEN "RateLimitError"
                ELSE IF error = NoBodyError THEN "ProtocolError"
                ELSE "UpstreamError"
    IN  [type |-> type, message |-> error.message, isRateLimit |-> type = "RateLimitError"]

\* variant: the error raised does not say which profile it came from
EnhancedError_anonymous(error, profile) ==
    [originalError |-> error, type |-> classifyError(error).type,
     profileId |-> "", profileName |-> ""]

\* the catch block of either executeQuery: the error that is thrown in place
\* of the one caught
EnhancedError(error, profile) ==
    [originalError |-> error, type |-> classifyError(error).type,
     profileId |-> profile.id, profileName |-> profile.name]

\* logger.error('executeQuery() error during execution:', {...})
ErrorLog(error, profile) ==
    [level |-> "error", text |-> "executeQuery() error during execution",
     data |-> [profile |-> profile.name, baseUrl |-> profile.baseUrl,
               type |-> classifyError(error).type]]

\* const timeout = this.profile.timeout ?? 30000
TimeoutOf(profile) ==
    OrElse(profile.timeout, 30000)

\* no timer has been set
NoTimer ==
    [state |-> "unset", delay |-> 0]

\* the signal of the controller the call uses
NotAborted ==
    [aborted |-> FALSE, by |-> "none"]

NoRequest ==
    [type |-> "none"]

NothingAwaited ==
    [of |-> "none", failure |-> Unset]

----------------------------------------------------------------------------
(* Anthropic-compatible translator: the options handed to the SDK *)

ALLOWED_ENV_VARS ==
    <<"PATH", "HOME", "SHELL", "TERM", "USER", "LANG", "LC_ALL">>

AllowedEnvVars ==
    {ALLOWED_ENV_VARS[k] : k \in 1..Len(ALLOWED_ENV_VARS)}

OverrideEnvVars ==
    {"ANTHROPIC_BASE_URL", "ANTHROPIC_API_KEY"}

\* the variables process.env may hold
ProcessEnvKeys ==
    {"PATH", "LANG", "AWS_SECRET_ACCESS_KEY", "ANTHROPIC_API_KEY"}

\* the text a variable of process.env holds when it is set; LANG is set to
\* the empty text
ProcessEnvValue(key) ==
    IF key = "LANG" THEN ""
    ELSE IF key = "PATH" THEN "/usr/bin"
    ELSE IF key = "AWS_SECRET_ACCESS_KEY" THEN "secret"
    ELSE "sk-process"

\* process.env: the variables that are set, with their values
ProcessEnvs ==
    {[key \in present |-> ProcessEnvValue(key)] : present \in SUBSET ProcessEnvKeys}

\* variant: the whole process environment is forwarded under the overrides
buildEnv_wholeEnvironment(processEnv, profile) ==
    [key \in DOMAIN processEnv \cup OverrideEnvVars |->
        IF key = "ANTHROPIC_BASE_URL" THEN profile.baseUrl
        ELSE IF key = "ANTHROPIC_API_KEY" THEN profile.apiKey
        ELSE processEnv[key]]

\* the allowlisted variables that process.env holds a non-empty text for,
\* and the base URL and the API key of the profile
buildEnv(processEnv, profile) ==
    LET copied == {key \in AllowedEnvVars : key \in DOMAIN processEnv /\ processEnv[key] # ""}
    IN  [key \in copied \cup OverrideEnvVars |->
            IF key = "ANTHROPIC_BASE_URL" THEN profile.baseUrl
            ELSE IF key = "ANTHROPIC_API_KEY" THEN profile.apiKey
            ELSE processEnv[key]]

defaultTools ==
    <<"Read", "Write", "Edit", "Glob", "Grep", "Bash", "WebSearch", "WebFetch">>

\* options.mcpServers && Object.keys(options.mcpServers).length > 0
hasMcpServers(options) ==
    options.mcpServers # Unset /\ ValueOf(options.mcpServers) # {}

\* variant: the tools are restricted whether or not MCP servers are configured
AllowedToolsOf_alwaysRestricted(options) ==
    IF options.allowedTools # Unset THEN options.allowedTools ELSE {defaultTools}

\* the allowedTools entry of sdkOptions, Unset when there is none
AllowedToolsOf(options) ==
    LET shouldRestrictTools == ~hasMcpServers(options)
    IN  IF ~shouldRestrictTools THEN Unset
        ELSE IF options.allowedTools # Unset THEN options.allowedTools
        ELSE {defaultTools}

\* const sdkOptions: Options = {...}
SdkOptionsOf(model, options, processEnv, profile) ==
    [model |-> mapModelToRemote(model, profile),
     env |-> buildEnv(processEnv, profile),
     allowedTools |-> AllowedToolsOf(options),
     permissionMode |-> "bypassPermissions",
     allowDangerouslySkipPermissions |-> TRUE,
     abortController |-> options.abortController]

\* the messages the SDK's stream hands over
SdkMessages ==
    {[type |-> "assistant", content |-> [type |-> "text", text |-> <<"H", "i">>]],
     [type |-> "result", subtype |-> "success", result |-> <<"H", "i">>]}

----------------------------------------------------------------------------
(* Connection test *)

\* base URLs with no, one and two slashes at their end
TestBaseUrls ==
    {<<"h", "t", "t", "p", "s", ":", "/", "/", "e", "x", "a", "m", "p", "l", "e", ".", "c", "o", "m">>,
     <<"h", "t", "t", "p", "s", ":", "/", "/", "e", "x", "a", "m", "p", "l", "e", ".", "c", "o", "m", "/">>,
     <<"h", "t", "t", "p", "s", ":", "/", "/", "e", "x", "a", "m", "p", "l", "e", ".", "c", "o", "m", "/", "/">>}

\* the profiles handed to testProfileConnection: baseUrl, apiKey and type are
\* given, timeout may be absent
TestProfiles ==
    [type : {"anthropic-compatible", "openai-compatible"},
     baseUrl : TestBaseUrls, apiKey : {"sk-profile"},
     timeout : {Unset, {5000}}]

RECURSIVE StripTrailingSlashes(_)
\* baseUrl.replace(/\/+$/, '')
StripTrailingSlashes(text) ==
    IF text # <<>> /\ text[Len(text)] = "/"
    THEN StripTrailingSlashes(SubSeq(text, 1, Len(text) - 1))
    ELSE text

\* the endpoint the test calls
TestUrlOf(profile) ==
    StripTrailingSlashes(profile.baseUrl)
        \o (IF profile.type = "anthropic-compatible" THEN <<"/v1/messages">>
            ELSE <<"/v1/models">>)

\* the statuses the endpoint answers with
TestStatuses ==
    {200, 204, 400, 401, 403, 404, 500}

\* response.ok
IsOk(status) ==
    status >= 200 /\ status <= 299

\* variant: an OpenAI-compatible endpoint is reachable only with status 200
StatusOutcome_only200(type, status) ==
    IF status \in {401, 403} THEN "authentication"
    ELSE IF type = "anthropic-compatible"
    THEN (IF IsOk(status) \/ status \in {400, 404} THEN "success" ELSE "unexpected")
    ELSE (IF status = 200 THEN "models" ELSE "unexpected")

\* what testProfileConnection does with the status of the response: the
\* authentication failure, success, success behind the reading of the models
\* list, or the unexpected response
StatusOutcome(type, status) ==
    IF status \in {401, 403} THEN "authentication"
    ELSE IF type = "anthropic-compatible"
    THEN (IF IsOk(status) \/ status \in {400, 404} THEN "success" ELSE "unexpected")
    ELSE (IF IsOk(status) THEN "models" ELSE "unexpected")

\* a ConnectionTestResult; testedAt is the time of the return
TestResult(success, error, availableModels) ==
    [success |-> success, error |-> error, availableModels |-> availableModels,
     testedAt |-> "now"]

AuthenticationFailed ==
    TestResult(FALSE, {"Authentication failed. Please check your API key."}, Unset)

UnexpectedResponse ==
    TestResult(FALSE, {"Unexpected response"}, Unset)

ConnectionTimeout ==
    TestResult(FALSE, {"Connection timeout"}, Unset)

ProfileNotFound ==
    TestResult(FALSE, {"Profile not found"}, Unset)

\* the catch block of testProfileConnection
CaughtResult(error) ==
    IF error.name = "AbortError" THEN ConnectionTimeout
    ELSE TestResult(FALSE, {error.message}, Unset)

\* no connection test has been started
NoTest ==
    [pc |-> "idle"]

\* the ids testConnection is called with
TestIds ==
    {1, 2}

----------------------------------------------------------------------------
(* Profile service: updateProfile, deleteProfile, duplicateProfile and
   saveConnectionTestResult *)

\* the ids the operations are called with: the id of the profile created
\* first, and an id randomUUID has not handed out
AskedIds ==
    {1, 0}

\* the inputs createProfile is called with where the other operations are
\* looked at: a loopback address that is allowed, a public host, and a
\* loopback address that is not allowed
ProfileInputs ==
    {input \in CreateInputs :
        /\ input.priority = Unset
        /\ input.allowInternalUrls \in {Unset, {TRUE}}
        /\ validateBaseUrlSsrf(input.baseUrl, TRUE).safe
        /\ input.allowInternalUrls = {TRUE} => ~validateBaseUrlSsrf(input.baseUrl, FALSE).safe}

\* UpdateProviderProfileInput, the fields updateProfile decides on: the id of
\* the first profile or of none; no base URL, one of the base URLs, or the
\* empty string
UpdateInputs ==
    [id : AskedIds, type : {Unset},
     baseUrl : {Unset, {<<>>}} \cup {{u} : u \in ServiceUrls},
     allowInternalUrls : {Unset, {TRUE}, {FALSE}},
     isActive : {Unset}, priority : {Unset}, timeout : {Unset}, rateLimitRpm : {Unset}]

\* profiles.findIndex((p) => p.id === id), counted from 1; 0 when absent
FindIndex(list, id) ==
    LET found == {k \in 1..Len(list) : list[k].id = id}
    IN  IF found = {} THEN 0 ELSE CHOOSE k \in found : \A l \in found : k <= l

ProfileNotFoundError(id) ==
    [kind |-> "Error", message |-> "Provider profile not found", id |-> id]

\* variant: the base URL is validated whenever one is given
updateProfileGuard_always(input, existing) ==
    IF input.baseUrl # Unset
    THEN LET allowInternal == OrElse(input.allowInternalUrls, existing.allowInternalUrls)
             ssrfResult    == validateBaseUrlSsrf(ValueOf(input.baseUrl), allowInternal)
         IN  IF ~ssrfResult.safe
             THEN [kind |-> "Error", message |-> "Invalid base URL",
                   reason |-> ssrfResult.reason]
             ELSE Null
    ELSE Null

\* updateProfile, 'Validate base URL if changing': what it throws, or null
updateProfileGuard(input, existing) ==
    IF Truthy(input.baseUrl) /\ ValueOf(input.baseUrl) # existing.baseUrl
    THEN LET allowInternal == OrElse(input.allowInternalUrls, existing.allowInternalUrls)
             ssrfResult    == validateBaseUrlSsrf(ValueOf(input.baseUrl), allowInternal)
         IN  IF ~ssrfResult.safe
             THEN [kind |-> "Error", message |-> "Invalid base URL",
                   reason |-> ssrfResult.reason]
             ELSE Null
    ELSE Null

\* const updated of updateProfile; updatedAt is not among the fields kept
UpdatedProfile(input, existing) ==
    [existing EXCEPT !.type = OrElse(input.type, @),
                     !.baseUrl = OrElse(input.baseUrl, @),
                     !.isActive = OrElse(input.isActive, @),
                     !.priority = OrElse(input.priority, @),
                     !.timeout = OrElse(input.timeout, @),
                     !.allowInternalUrls = OrElse(input.allowInternalUrls, @),
                     !.rateLimitRpm = OrElse(input.rateLimitRpm, @)]

\* variant: the list is written back as it was read
WithoutProfile_kept(list, id) ==
    list

\* profiles.filter((p) => p.id !== id)
WithoutProfile(list, id) ==
    LET keep(p) == p.id # id
    IN  SelectSeq(list, keep)

\* the input duplicateProfile calls createProfile with
DuplicateInput(profile) ==
    [type |-> profile.type, baseUrl |-> profile.baseUrl,
     allowInternalUrls |-> {profile.allowInternalUrls},
     isActive |-> {FALSE}, priority |-> Unset,
     timeout |-> {profile.timeout}, rateLimitRpm |-> {profile.rateLimitRpm}]

\* the results saveConnectionTestResult is called with
SavedResults ==
    {[success |-> TRUE], [success |-> FALSE]}

\* { ...profiles[index], lastConnectionTest: result }
WithConnectionTest(profile, result) ==
    [field \in DOMAIN profile \cup {"lastConnectionTest"} |->
        IF field = "lastConnectionTest" THEN result ELSE profile[field]]

----------------------------------------------------------------------------
(* Primary selection *)

StrProfileColon ==
    <<"p", "r", "o", "f", "i", "l", "e", ":">>

\* the ids of the profiles, character by character, as a model id spells them
IdText ==
    [p1 |-> <<"p", "1">>, p2 |-> <<"p", "2">>, p3 |-> <<"p", "3">>, p4 |-> <<"p", "4">>]

\* model ids that name a profile: "profile:p1/gpt-4", "profile:p2/claude-x",
\* "profile:p9/opus" (a profile that is in no list), "profile:p1" (no model
\* part), "Profile:p1/x" (not the prefix)
ProfileModelIds ==
    { StrProfileColon \o <<"p", "1", "/", "g", "p", "t", "-", "4">>,
      StrProfileColon \o <<"p", "2", "/", "c", "l", "a", "u", "d", "e", "-", "x">>,
      StrProfileColon \o <<"p", "9", "/", "o", "p", "u", "s">>,
      StrProfileColon \o <<"p", "1">>,
      <<"P", "r", "o", "f", "i", "l", "e", ":", "p", "1", "/", "x">> }

\* the third argument: undefined, or a profile type
PreferredProfileTypes ==
    {Unset} \cup {{t} : t \in ProfileTypes}

\* profiles.find((p) => p.id === profileId): the first place that holds the
\* id, or 0
FindProfile(profs, profileId) ==
    LET found == {k \in 1..Len(profs) : IdText[profs[k].id] = profileId}
    IN  IF found = {} THEN 0 ELSE CHOOSE k \in found : \A l \in found : k <= l

\* variant: the preferred type is looked at before the profile the model id
\* names
selectProfile_typeFirst(model, profs, preferredProfileType) ==
    LET explicit   == IF StartsWith(model, StrProfileColon)
                      THEN FindProfile(profs, Split(From(model, 9), "/")[1])
                      ELSE 0
        preferred  == IF preferredProfileType # Unset
                      THEN matchingProfiles(ValueOf(preferredProfileType), profs)
                      ELSE <<>>
        lowerModel == ToLowerCase(model)
        isClaudeModel == \/ StartsWith(lowerModel, StrClaudeDash)
                         \/ \E n \in {StrOpus, StrSonnet, StrHaiku} : Includes(lowerModel, n)
        anthropicProfiles == matchingProfiles("anthropic-compatible", profs)
        isOpenAIModel == \/ StartsWith(lowerModel, StrGptDash)
                         \/ StartsWith(lowerModel, StrO1)
                         \/ StartsWith(lowerModel, StrO3)
        openaiProfiles == matchingProfiles("openai-compatible", profs)
    IN  IF Len(preferred) > 0
        THEN [debug |-> "Using typed profile", profile |-> {preferred[1]}]
        ELSE IF explicit # 0
        THEN [debug |-> "Using profile", profile |-> {profs[explicit]}]
        ELSE IF isClaudeModel /\ Len(anthropicProfiles) > 0
        THEN [debug |-> "Routing Claude model", profile |-> {anthropicProfiles[1]}]
        ELSE IF isOpenAIModel /\ Len(openaiProfiles) > 0
        THEN [debug |-> "Routing OpenAI model", profile |-> {openaiProfiles[1]}]
        ELSE [debug |-> "none", profile |-> Unset]

\* getProviderForModelWithProfiles down to its last line: the profile the
\* provider is created from, if any, and the debug line written with it
selectProfile(model, profs, preferredProfileType) ==
    LET explicit   == IF StartsWith(model, StrProfileColon)
                      THEN FindProfile(profs, Split(From(model, 9), "/")[1])
                      ELSE 0
        preferred  == IF preferredProfileType # Unset
                      THEN matchingProfiles(ValueOf(preferredProfileType), profs)
                      ELSE <<>>
        lowerModel == ToLowerCase(model)
        isClaudeModel == \/ StartsWith(lowerModel, StrClaudeDash)
                         \/ \E n \in {StrOpus, StrSonnet, StrHaiku} : Includes(lowerModel, n)
        anthropicProfiles == matchingProfiles("anthropic-compatible", profs)
        isOpenAIModel == \/ StartsWith(lowerModel, StrGptDash)
                         \/ StartsWith(lowerModel, StrO1)
                         \/ StartsWith(lowerModel, StrO3)
        openaiProfiles == matchingProfiles("openai-compatible", profs)
    IN  IF explicit # 0
        THEN [debug |-> "Using profile", profile |-> {profs[explicit]}]
        ELSE IF Len(preferred) > 0
        THEN [debug |-> "Using typed profile", profile |-> {preferred[1]}]
        ELSE IF isClaudeModel /\ Len(anthropicProfiles) > 0
        THEN [debug |-> "Routing Claude model", profile |-> {anthropicProfiles[1]}]
        ELSE IF isOpenAIModel /\ Len(openaiProfiles) > 0
        THEN [debug |-> "Routing OpenAI model", profile |-> {openaiProfiles[1]}]
        ELSE [debug |-> "none", profile |-> Unset]

\* the provider returned, or the Error getProviderForModel throws
getProviderForModelWithProfiles(model, profs, preferredProfileType, reg) ==
    LET selected == selectProfile(model, profs, preferredProfileType)
    IN  IF selected.profile # Unset
        THEN createProviderFromProfile(ValueOf(selected.profile))
        ELSE getProviderForModel(model, reg)

----------------------------------------------------------------------------
(* executeWithFallback *)

\* what executor(providers[k]) resolves with, and what it rejects with: an
\* Error object, as the cast in the catch block takes it to be
ResultOf(k) ==
    [kind |-> "result", from |-> k]

ErrorOf(k) ==
    [kind |-> "Error", from |-> k]

\* logger.debug(`Attempting provider ${i + 1}/${providers.length}: ...`)
DebugRecord(k, n) ==
    [level |-> "debug", attempt |-> k + 1, of |-> n, provider |-> k]

\* logger.warn(`Provider ... failed: ...` + (i < providers.length - 1 ? ... : ...))
WarnRecord(k, n) ==
    [level |-> "warn", provider |-> k,
     text |-> IF k < n - 1 THEN "Trying next provider..." ELSE "No more fallbacks."]

\* variant: the failure of the last candidate is not logged
LogFailure_unlessLast(log, k, n) ==
    IF k < n - 1 THEN Append(log, WarnRecord(k, n)) ELSE log

\* the catch block's logger.warn(...): one record behind the log
LogFailure(log, k, n) ==
    Append(log, WarnRecord(k, n))

\* variant: the first error is kept (lastError = lastError ?? error)
CatchError_keepFirst(previous, error) ==
    IF previous # Null THEN previous ELSE error

\* catch (error) { lastError = error as Error; ... }
CatchError(previous, error) ==
    error

\* variant: the last error is thrown as the cause of a new Error
ThrowAfterLoop_wrapped(last, model) ==
    [kind |-> "Error", message |-> "All providers failed for model", model |-> model,
     cause |-> last]

\* throw lastError || new Error(`All providers failed for model: ${modelId}`)
ThrowAfterLoop(last, model) ==
    IF last # Null THEN last
    ELSE [kind |-> "Error", message |-> "All providers failed for model", model |-> model]

\* variant: the loop steps over a candidate
NextIndex_skip(k) ==
    k + 2

\* the loop's i++
NextIndex(k) ==
    k + 1

Init ==
    /\ registry = BootRegistry
    /\ regCount = 0
    /\ regLog = BootCalls
    /\ lastCall = [op |-> "none"]
    /\ pc = "Pending"
    /\ modelId = <<>>
    /\ profiles = <<>>
    /\ executor = <<>>
    /\ providers = <<>>
    /\ i = 0
    /\ lastError = Null
    /\ invoked = <<>>
    /\ inFlight = {}
    /\ logs = <<>>
    /\ outcome = [kind |-> "pending"]
    /\ store = <<>>
    /\ svc = [c \in ServiceCalls |-> IdleCall]
    /\ uuidCount = 0
    /\ serviceLog = <<>>
    /\ test = NoTest
    /\ streamPc = "idle"
    /\ body = <<>>
    /\ readPos = 0
    /\ buffer = <<>>
    /\ accumulatedContent = <<>>
    /\ accumulatedToolCalls = <<>>
    /\ pending = <<>>
    /\ emitted = <<>>
    /\ streamLog = <<>>
    /\ request = NoRequest
    /\ timer = NoTimer
    /\ signal = NotAborted
    /\ elapsed = FALSE
    /\ responseBody = "none"
    /\ awaited = NothingAwaited
    /\ raised = Unset
    /\ sdkOptions = Unset

\* variant: executor is called on every candidate at once (hedged requests)
Start_hedged ==
    /\ pc = "Pending"
    /\ lastCall.op = "none"
    /\ \E m \in ModelIds, ps \in ProfileLists :
         LET chain == getFallbackProviders(m, ps, registry)
             n     == Len(chain)
         IN  /\ modelId' = m
             /\ profiles' = ps
             /\ providers' = chain
             /\ executor' \in [1..n -> {"resolve", "reject"}]
             /\ logs' = [k \in 1..n |-> DebugRecord(k - 1, n)]
             /\ invoked' = [k \in 1..n |-> k - 1]
             /\ inFlight' = 0..(n - 1)
    /\ pc' = "Trying"
    /\ i' = 0
    /\ UNCHANGED <<regVars, lastCall, lastError, outcome>>
    /\ UNCHANGED <<serviceVars, streamVars>>

\* the call, up to its first await: the chain is built, the loop is entered
\* and executor(providers[0]) is called
Start ==
    /\ pc = "Pending"
    /\ lastCall.op = "none"
    /\ \E m \in ModelIds, ps \in ProfileLists :
         LET chain == getFallbackProviders(m, ps, registry)
         IN  /\ modelId' = m
             /\ profiles' = ps
             /\ lastError' = Null
             /\ IF Throws(chain)
                THEN /\ providers' = <<>>
                     /\ executor' = <<>>
                     /\ pc' = "Failed"
                     /\ outcome' = [kind |-> "thrown", error |-> chain[Len(chain)]]
                     /\ UNCHANGED <<i, invoked, inFlight, logs>>
                ELSE /\ providers' = chain
                     /\ executor' \in [1..Len(chain) -> {"resolve", "reject"}]
                     /\ pc' = "Trying"
                     /\ i' = 0
                     /\ logs' = <<DebugRecord(0, Len(chain))>>
                     /\ invoked' = <<0>>
                     /\ inFlight' = {0}
                     /\ UNCHANGED outcome
    /\ UNCHANGED <<regVars, lastCall>>
    /\ UNCHANGED <<serviceVars, streamVars>>

\* return await executor(provider): the awaited promise resolved
Resolve ==
    /\ pc = "Trying"
    /\ i \in inFlight
    /\ executor[i + 1] = "resolve"
    /\ inFlight' = inFlight \ {i}
    /\ outcome' = [kind |-> "returned", value |-> ResultOf(i)]
    /\ pc' = "Succeeded"
    /\ UNCHANGED <<regVars, lastCall, modelId, profiles, executor,
                   providers, i, lastError, invoked, logs>>
    /\ UNCHANGED <<serviceVars, streamVars>>

\* the awaited promise rejected: the catch block, then either the next
\* iteration up to its await or the throw behind the loop
Reject ==
    /\ pc = "Trying"
    /\ i \in inFlight
    /\ executor[i + 1] = "reject"
    /\ LET n    == Len(providers)
           last == CatchError(lastError, ErrorOf(i))
           warn == LogFailure(logs, i, n)
           next == NextIndex(i)
       IN  /\ lastError' = last
           /\ i' = next
           /\ IF next < n
              THEN /\ logs' = Append(warn, DebugRecord(next, n))
                   /\ invoked' = Append(invoked, next)
                   /\ inFlight' = (inFlight \ {i}) \cup {next}
                   /\ UNCHANGED <<pc, outcome>>
              ELSE /\ logs' = warn
                   /\ inFlight' = inFlight \ {i}
                   /\ pc' = "Failed"
                   /\ outcome' = [kind |-> "thrown", error |-> ThrowAfterLoop(last, modelId)]
                   /\ UNCHANGED invoked
    /\ UNCHANGED <<regVars, lastCall, modelId, profiles, executor, providers>>
    /\ UNCHANGED <<serviceVars, streamVars>>

----------------------------------------------------------------------------
(* Calls on the registry *)

\* the factories handed to registerProvider after module load, one per call
RuntimeFactories ==
    <<"Factory1", "Factory2", "Factory3">>

\* registerProvider(name, registration), called after module load
RegisterProvider ==
    /\ regCount < MaxRegister
    /\ lastCall.op = "none"
    /\ pc = "Pending"
    /\ \E name \in {StrGPT, StrClaude},
          priority \in {NoPriority, {10}, {20}},
          canHandleModel \in {"undefined", "always"} :
         LET registration == [name |-> name, factory |-> RuntimeFactories[regCount + 1],
                              aliases |-> {}, canHandleModel |-> canHandleModel,
                              priority |-> priority]
         IN  /\ registry' = registerProvider(registry, name, registration)
             /\ regLog' = Append(regLog, [name |-> name, registration |-> registration])
    /\ regCount' = regCount + 1
    /\ UNCHANGED <<lastCall>>
    /\ UNCHANGED execVars
    /\ UNCHANGED <<serviceVars, streamVars>>

\* ProviderFactory.getFallbackProviders(modelId, profiles)
GetFallbackProviders ==
    /\ lastCall.op = "none"
    /\ pc = "Pending"
    /\ \E m \in ModelIds, ps \in ProfileLists :
         lastCall' = [op |-> "getFallbackProviders", modelId |-> m, profiles |-> ps,
                      profileType |-> profileTypeOf(m),
                      result |-> getFallbackProviders(m, ps, registry)]
    /\ UNCHANGED <<regVars>>
    /\ UNCHANGED execVars
    /\ UNCHANGED <<serviceVars, streamVars>>

\* ProviderFactory.getProviderForModel(modelId), which resolves the name first
GetProviderForModel ==
    /\ lastCall.op = "none"
    /\ pc = "Pending"
    /\ \E m \in ModelIds :
         lastCall' = [op |-> "getProviderForModel", modelId |-> m,
                      name |-> getProviderNameForModel(m, registry),
                      result |-> getProviderForModel(m, registry)]
    /\ UNCHANGED <<regVars>>
    /\ UNCHANGED execVars
    /\ UNCHANGED <<serviceVars, streamVars>>

\* ProviderFactory.getProviderForModelWithProfiles(modelId, profiles,
\* preferredProfileType); the chain getFallbackProviders builds from the same
\* model id and profiles is kept beside it
GetProviderForModelWithProfiles ==
    /\ lastCall.op = "none"
    /\ pc = "Pending"
    /\ \E m \in ModelIds \cup ProfileModelIds, ps \in ProfileLists,
          preferredProfileType \in PreferredProfileTypes :
         lastCall' = [op |-> "getProviderForModelWithProfiles", modelId |-> m,
                      profiles |-> ps, preferredProfileType |-> preferredProfileType,
                      debug |-> selectProfile(m, ps, preferredProfileType).debug,
                      result |-> getProviderForModelWithProfiles(m, ps, preferredProfileType,
                                                                 registry),
                      chain |-> getFallbackProviders(m, ps, registry)]
    /\ UNCHANGED <<regVars>>
    /\ UNCHANGED execVars
    /\ UNCHANGED <<serviceVars, streamVars>>

----------------------------------------------------------------------------
(* Calls on the model mapper *)

\* mapModelToRemote(model, profile), mapModelFromRemote(model, profile) and the
\* way there and back, on one profile
MapModel ==
    /\ lastCall.op = "none"
    /\ pc = "Pending"
    /\ \E mapping \in ModelMappings, m \in MapperNames :
         LET profile == [modelMapping |-> mapping]
         IN  lastCall' = [op |-> "mapModel", model |-> m, profile |-> profile,
                          toRemote |-> mapModelToRemote(m, profile),
                          fromRemote |-> mapModelFromRemote(m, profile),
                          roundTrip |-> mapModelFromRemote(mapModelToRemote(m, profile),
                                                           profile)]
    /\ UNCHANGED <<regVars>>
    /\ UNCHANGED execVars
    /\ UNCHANGED <<serviceVars, streamVars>>

----------------------------------------------------------------------------
(* Calls on the SSRF guard *)

\* validateBaseUrlSsrf(url, allowInternalUrls)
ValidateBaseUrlSsrf ==
    /\ lastCall.op = "none"
    /\ pc = "Pending"
    /\ \E url \in Urls, allowInternalUrls \in BOOLEAN :
         lastCall' = [op |-> "validateBaseUrlSsrf", url |-> url,
                      allowInternalUrls |-> allowInternalUrls,
                      result |-> validateBaseUrlSsrf(url, allowInternalUrls),
                      again |-> <<>>]
    /\ UNCHANGED <<regVars>>
    /\ UNCHANGED execVars
    /\ UNCHANGED <<serviceVars, streamVars>>

\* a second call with the same URL, with either value of the flag
ValidateAgain ==
    /\ lastCall.op = "validateBaseUrlSsrf"
    /\ lastCall.again = <<>>
    /\ \E allowInternalUrls \in BOOLEAN :
         lastCall' = [lastCall EXCEPT !.again =
                        << [allowInternalUrls |-> allowInternalUrls,
                            result |-> validateBaseUrlSsrf(lastCall.url, allowInternalUrls)] >>]
    /\ UNCHANGED <<regVars>>
    /\ UNCHANGED execVars
    /\ UNCHANGED <<serviceVars, streamVars>>

----------------------------------------------------------------------------
(* Calls on the profile service *)

\* no factory call has been made in this behaviour
FactoryUntouched ==
    /\ lastCall.op = "none"
    /\ pc = "Pending"
    /\ regCount = 0

\* no call on the service is between its first and its last step
NoneInFlight ==
    \A c \in ServiceCalls : svc[c].pc \in {"idle", "rejected", "fulfilled"}

\* createProfile(input) up to its first await: the guard, then the call of
\* getGlobalSettings
CreateProfileOf(c, inputs) ==
    /\ FactoryUntouched
    /\ svc[c].pc = "idle"
    /\ test.pc = "idle"
    /\ \A d \in Callers : d < c => svc[d].pc # "idle"
    /\ \E input \in inputs :
         LET thrown == createProfileGuard(input)
         IN  svc' = [svc EXCEPT ![c] =
                 IF thrown # Null
                 THEN [pc |-> "rejected", op |-> "createProfile", input |-> input,
                       error |-> thrown]
                 ELSE [pc |-> "getGlobalSettings", op |-> "createProfile", input |-> input]]
    /\ UNCHANGED <<store, uuidCount, serviceLog, test>>
    /\ UNCHANGED <<regVars, lastCall>>
    /\ UNCHANGED execVars
    /\ UNCHANGED streamVars

\* createProfile(input) with any of the inputs
CreateProfile(c) ==
    CreateProfileOf(c, CreateInputs)

\* createProfile from the settings read to the call of updateGlobalSettings
CreateProfileRead(c) ==
    /\ svc[c].pc = "getGlobalSettings"
    /\ svc[c].op \in {"createProfile", "duplicateProfile"}
    /\ LET settings == getGlobalSettings(store)
           list     == settings.providerProfiles
           profile  == NewProfile(svc[c].input, list, uuidCount + 1)
       IN  svc' = [svc EXCEPT ![c] =
               [pc |-> "updateGlobalSettings", op |-> svc[c].op,
                input |-> svc[c].input, profiles |-> list, profile |-> profile,
                partial |-> [providerProfiles |-> Append(list, profile)]]]
    /\ uuidCount' = uuidCount + 1
    /\ UNCHANGED <<store, serviceLog, test>>
    /\ UNCHANGED <<regVars, lastCall>>
    /\ UNCHANGED execVars
    /\ UNCHANGED streamVars

\* createProfile from the settings write to its return
CreateProfileWritten(c) ==
    /\ svc[c].pc = "updateGlobalSettings"
    /\ svc[c].op \in {"createProfile", "duplicateProfile"}
    /\ store' = updateGlobalSettings(store, svc[c].partial)
    /\ serviceLog' = Append(serviceLog, [level |-> "info", text |-> "Created provider profile",
                                          id |-> svc[c].profile.id])
    /\ svc' = [svc EXCEPT ![c] =
               [pc |-> "fulfilled", op |-> svc[c].op, input |-> svc[c].input,
                profiles |-> svc[c].profiles, result |-> svc[c].profile]]
    /\ UNCHANGED <<uuidCount, test>>
    /\ UNCHANGED <<regVars, lastCall>>
    /\ UNCHANGED execVars
    /\ UNCHANGED streamVars

\* reorderProfiles(orderedIds) up to its first await, the call of
\* getGlobalSettings
ReorderProfilesOf(idLists) ==
    /\ svc[ReorderCall].pc = "idle"
    /\ FactoryUntouched
    /\ test.pc = "idle"
    /\ \E orderedIds \in idLists :
         svc' = [svc EXCEPT ![ReorderCall] =
                 [pc |-> "getGlobalSettings", op |-> "reorderProfiles",
                  orderedIds |-> orderedIds]]
    /\ UNCHANGED <<store, uuidCount, serviceLog, test>>
    /\ UNCHANGED <<regVars, lastCall>>
    /\ UNCHANGED execVars
    /\ UNCHANGED streamVars

\* reorderProfiles(orderedIds) with any of the lists
ReorderProfiles ==
    ReorderProfilesOf(OrderedIdLists)

\* reorderProfiles from the settings read to the call of
\* updateGlobalSettings: the priorities are set and the list is sorted
ReorderProfilesRead ==
    /\ svc[ReorderCall].pc = "getGlobalSettings"
    /\ svc[ReorderCall].op = "reorderProfiles"
    /\ LET settings        == getGlobalSettings(store)
           list            == settings.providerProfiles
           updatedProfiles == reorderProfiles(list, svc[ReorderCall].orderedIds)
       IN  svc' = [svc EXCEPT ![ReorderCall] =
               [pc |-> "updateGlobalSettings", op |-> "reorderProfiles",
                orderedIds |-> svc[ReorderCall].orderedIds, profiles |-> list,
                updatedProfiles |-> updatedProfiles,
                partial |-> [providerProfiles |-> updatedProfiles]]]
    /\ UNCHANGED <<store, uuidCount, serviceLog, test>>
    /\ UNCHANGED <<regVars, lastCall>>
    /\ UNCHANGED execVars
    /\ UNCHANGED streamVars

\* reorderProfiles from the settings write to its return
ReorderProfilesWritten ==
    /\ svc[ReorderCall].pc = "updateGlobalSettings"
    /\ svc[ReorderCall].op = "reorderProfiles"
    /\ store' = updateGlobalSettings(store, svc[ReorderCall].partial)
    /\ serviceLog' = Append(serviceLog, [level |-> "info", text |-> "Reordered provider profiles",
                                          count |-> Len(svc[ReorderCall].orderedIds)])
    /\ svc' = [svc EXCEPT ![ReorderCall] =
               [pc |-> "fulfilled", op |-> "reorderProfiles",
                orderedIds |-> svc[ReorderCall].orderedIds,
                profiles |-> svc[ReorderCall].profiles,
                result |-> svc[ReorderCall].updatedProfiles]]
    /\ UNCHANGED <<uuidCount, test>>
    /\ UNCHANGED <<regVars, lastCall>>
    /\ UNCHANGED execVars
    /\ UNCHANGED streamVars

\* updateProfile(input) up to its first await, the call of getGlobalSettings
UpdateProfileOf(c, inputs) ==
    /\ FactoryUntouched
    /\ svc[c].pc = "idle"
    /\ test.pc = "idle"
    /\ \A d \in Callers : d < c => svc[d].pc # "idle"
    /\ \E input \in inputs :
         svc' = [svc EXCEPT ![c] =
                 [pc |-> "getGlobalSettings", op |-> "updateProfile", input |-> input]]
    /\ UNCHANGED <<store, uuidCount, serviceLog, test>>
    /\ UNCHANGED <<regVars, lastCall>>
    /\ UNCHANGED execVars
    /\ UNCHANGED streamVars

\* updateProfile(input) with any of the inputs
UpdateProfile(c) ==
    UpdateProfileOf(c, UpdateInputs)

\* updateProfile from the settings read: it throws for an id that is not
\* there and for a changed base URL that is not safe, else it calls
\* updateGlobalSettings with the profile replaced in the list
UpdateProfileRead(c) ==
    /\ svc[c].pc = "getGlobalSettings"
    /\ svc[c].op = "updateProfile"
    /\ LET settings == getGlobalSettings(store)
           list     == settings.providerProfiles
           input    == svc[c].input
           index    == FindIndex(list, input.id)
       IN  svc' = [svc EXCEPT ![c] =
               IF index = 0
               THEN [pc |-> "rejected", op |-> "updateProfile", input |-> input,
                     profiles |-> list, error |-> ProfileNotFoundError(input.id)]
               ELSE IF updateProfileGuard(input, list[index]) # Null
               THEN [pc |-> "rejected", op |-> "updateProfile", input |-> input,
                     profiles |-> list, error |-> updateProfileGuard(input, list[index])]
               ELSE LET updated == UpdatedProfile(input, list[index])
                    IN  [pc |-> "updateGlobalSettings", op |-> "updateProfile",
                         input |-> input, profiles |-> list, profile |-> updated,
                         partial |-> [providerProfiles |->
                                          [list EXCEPT ![index] = updated]]]]
    /\ UNCHANGED <<store, uuidCount, serviceLog, test>>
    /\ UNCHANGED <<regVars, lastCall>>
    /\ UNCHANGED execVars
    /\ UNCHANGED streamVars

\* updateProfile from the settings write to its return
UpdateProfileWritten(c) ==
    /\ svc[c].pc = "updateGlobalSettings"
    /\ svc[c].op = "updateProfile"
    /\ store' = updateGlobalSettings(store, svc[c].partial)
    /\ serviceLog' = Append(serviceLog, [level |-> "info", text |-> "Updated provider profile",
                                          id |-> svc[c].profile.id])
    /\ svc' = [svc EXCEPT ![c] =
               [pc |-> "fulfilled", op |-> "updateProfile", input |-> svc[c].input,
                profiles |-> svc[c].profiles, result |-> svc[c].profile]]
    /\ UNCHANGED <<uuidCount, test>>
    /\ UNCHANGED <<regVars, lastCall>>
    /\ UNCHANGED execVars
    /\ UNCHANGED streamVars

\* deleteProfile(id) up to its first await, the call of getGlobalSettings
DeleteProfile(c) ==
    /\ FactoryUntouched
    /\ svc[c].pc = "idle"
    /\ test.pc = "idle"
    /\ \A d \in Callers : d < c => svc[d].pc # "idle"
    /\ \E id \in AskedIds :
         svc' = [svc EXCEPT ![c] =
                 [pc |-> "getGlobalSettings", op |-> "deleteProfile", id |-> id]]
    /\ UNCHANGED <<store, uuidCount, serviceLog, test>>
    /\ UNCHANGED <<regVars, lastCall>>
    /\ UNCHANGED execVars
    /\ UNCHANGED streamVars

\* deleteProfile from the settings read: it throws for an id that is not
\* there, else it calls updateGlobalSettings with the list without the profile
DeleteProfileRead(c) ==
    /\ svc[c].pc = "getGlobalSettings"
    /\ svc[c].op = "deleteProfile"
    /\ LET settings == getGlobalSettings(store)
           list     == settings.providerProfiles
           id       == svc[c].id
       IN  svc' = [svc EXCEPT ![c] =
               IF FindIndex(list, id) = 0
               THEN [pc |-> "rejected", op |-> "deleteProfile", id |-> id,
                     profiles |-> list, error |-> ProfileNotFoundError(id)]
               ELSE [pc |-> "updateGlobalSettings", op |-> "deleteProfile", id |-> id,
                     profiles |-> list,
                     partial |-> [providerProfiles |-> WithoutProfile(list, id)]]]
    /\ UNCHANGED <<store, uuidCount, serviceLog, test>>
    /\ UNCHANGED <<regVars, lastCall>>
    /\ UNCHANGED execVars
    /\ UNCHANGED streamVars

\* deleteProfile from the settings write to its return
DeleteProfileWritten(c) ==
    /\ svc[c].pc = "updateGlobalSettings"
    /\ svc[c].op = "deleteProfile"
    /\ store' = updateGlobalSettings(store, svc[c].partial)
    /\ serviceLog' = Append(serviceLog, [level |-> "info", text |-> "Deleted provider profile",
                                          id |-> svc[c].id])
    /\ svc' = [svc EXCEPT ![c] =
               [pc |-> "fulfilled", op |-> "deleteProfile", id |-> svc[c].id,
                profiles |-> svc[c].profiles]]
    /\ UNCHANGED <<uuidCount, test>>
    /\ UNCHANGED <<regVars, lastCall>>
    /\ UNCHANGED execVars
    /\ UNCHANGED streamVars

\* duplicateProfile(id) up to its first await, the settings read of getProfile
DuplicateProfile(c) ==
    /\ FactoryUntouched
    /\ svc[c].pc = "idle"
    /\ test.pc = "idle"
    /\ \A d \in Callers : d < c => svc[d].pc # "idle"
    /\ \E id \in AskedIds :
         svc' = [svc EXCEPT ![c] =
                 [pc |-> "getProfile", op |-> "duplicateProfile", id |-> id]]
    /\ UNCHANGED <<store, uuidCount, serviceLog, test>>
    /\ UNCHANGED <<regVars, lastCall>>
    /\ UNCHANGED execVars
    /\ UNCHANGED streamVars

\* duplicateProfile from the settings read of getProfile: it throws for an id
\* that is not there, else it calls createProfile, which goes up to its own
\* first await
DuplicateProfileRead(c) ==
    /\ svc[c].pc = "getProfile"
    /\ svc[c].op = "duplicateProfile"
    /\ LET settings == getGlobalSettings(store)
           list     == settings.providerProfiles
           id       == svc[c].id
           index    == FindIndex(list, id)
       IN  svc' = [svc EXCEPT ![c] =
               IF index = 0
               THEN [pc |-> "rejected", op |-> "duplicateProfile", id |-> id,
                     profiles |-> list, error |-> ProfileNotFoundError(id)]
               ELSE LET input == DuplicateInput(list[index])
                    IN  IF createProfileGuard(input) # Null
                        THEN [pc |-> "rejected", op |-> "duplicateProfile", id |-> id,
                              input |-> input, profiles |-> list,
                              error |-> createProfileGuard(input)]
                        ELSE [pc |-> "getGlobalSettings", op |-> "duplicateProfile",
                              id |-> id, input |-> input]]
    /\ UNCHANGED <<store, uuidCount, serviceLog, test>>
    /\ UNCHANGED <<regVars, lastCall>>
    /\ UNCHANGED execVars
    /\ UNCHANGED streamVars

\* saveConnectionTestResult(profileId, result) up to its first await
SaveConnectionTestResult(c) ==
    /\ FactoryUntouched
    /\ svc[c].pc = "idle"
    /\ test.pc = "idle"
    /\ \A d \in Callers : d < c => svc[d].pc # "idle"
    /\ \E profileId \in AskedIds, result \in SavedResults :
         svc' = [svc EXCEPT ![c] =
                 [pc |-> "getGlobalSettings", op |-> "saveConnectionTestResult",
                  profileId |-> profileId, result |-> result]]
    /\ UNCHANGED <<store, uuidCount, serviceLog, test>>
    /\ UNCHANGED <<regVars, lastCall>>
    /\ UNCHANGED execVars
    /\ UNCHANGED streamVars

\* saveConnectionTestResult from the settings read: it returns for an id that
\* is not there, else it calls updateGlobalSettings with the result put on
\* the profile
SaveConnectionTestResultRead(c) ==
    /\ svc[c].pc = "getGlobalSettings"
    /\ svc[c].op = "saveConnectionTestResult"
    /\ LET settings == getGlobalSettings(store)
           list     == settings.providerProfiles
           index    == FindIndex(list, svc[c].profileId)
       IN  svc' = [svc EXCEPT ![c] =
               IF index = 0
               THEN [pc |-> "fulfilled", op |-> "saveConnectionTestResult",
                     profileId |-> svc[c].profileId, result |-> svc[c].result,
                     profiles |-> list]
               ELSE [pc |-> "updateGlobalSettings", op |-> "saveConnectionTestResult",
                     profileId |-> svc[c].profileId, result |-> svc[c].result,
                     profiles |-> list,
                     partial |-> [providerProfiles |->
                                      [list EXCEPT ![index] =
                                           WithConnectionTest(@, svc[c].result)]]]]
    /\ UNCHANGED <<store, uuidCount, serviceLog, test>>
    /\ UNCHANGED <<regVars, lastCall>>
    /\ UNCHANGED execVars
    /\ UNCHANGED streamVars

\* saveConnectionTestResult from the settings write to its return
SaveConnectionTestResultWritten(c) ==
    /\ svc[c].pc = "updateGlobalSettings"
    /\ svc[c].op = "saveConnectionTestResult"
    /\ store' = updateGlobalSettings(store, svc[c].partial)
    /\ svc' = [svc EXCEPT ![c] =
               [pc |-> "fulfilled", op |-> "saveConnectionTestResult",
                profileId |-> svc[c].profileId, result |-> svc[c].result,
                profiles |-> svc[c].profiles]]
    /\ UNCHANGED <<uuidCount, serviceLog, test>>
    /\ UNCHANGED <<regVars, lastCall>>
    /\ UNCHANGED execVars
    /\ UNCHANGED streamVars

----------------------------------------------------------------------------
(* Calls of testConnection and testProfileConnection *)

\* testProfileConnection up to its fetch: the timer is set and the request
\* is sent
TestStarted(profile) ==
    [pc |-> "fetch", profile |-> profile, testUrl |-> TestUrlOf(profile),
     timer |-> [state |-> "armed", delay |-> OrElse(profile.timeout, DEFAULT_PROVIDER_TIMEOUT)],
     aborted |-> FALSE, status |-> Unset, result |-> Unset]

\* the test returns: its finally block clears the timer
TestReturned(result) ==
    [test EXCEPT !.pc = "fulfilled", !.result = {result},
                 !.timer.state = IF @ = "armed" THEN "cleared" ELSE @]

\* testConnection(profileId) up to the settings read of getProfile
TestConnection ==
    /\ test.pc = "idle"
    /\ FactoryUntouched
    /\ streamPc = "idle"
    /\ \A c \in Callers : svc[c].pc \in {"idle", "rejected", "fulfilled"}
    /\ \E profileId \in TestIds : test' = [pc |-> "getProfile", profileId |-> profileId]
    /\ UNCHANGED <<store, svc, uuidCount, serviceLog>>
    /\ UNCHANGED <<regVars, lastCall>>
    /\ UNCHANGED execVars
    /\ UNCHANGED streamVars

\* testConnection from the settings read: the result for a profile that is
\* not there, or testProfileConnection on the profile found
TestConnectionRead ==
    /\ test.pc = "getProfile"
    /\ LET found == {k \in 1..Len(store) : store[k].id = test.profileId}
       IN  test' = IF found = {}
                   THEN [pc |-> "fulfilled", profileId |-> test.profileId,
                         result |-> {ProfileNotFound}]
                   ELSE LET profile == store[CHOOSE k \in found : TRUE]
                        IN  TestStarted([type |-> profile.type, baseUrl |-> profile.baseUrl,
                                         apiKey |-> "stored",
                                         timeout |-> {profile.timeout}])
    /\ UNCHANGED <<store, svc, uuidCount, serviceLog>>
    /\ UNCHANGED <<regVars, lastCall>>
    /\ UNCHANGED execVars
    /\ UNCHANGED streamVars

\* testProfileConnection(profile) up to its fetch
TestProfileConnection ==
    /\ test.pc = "idle"
    /\ FactoryUntouched
    /\ streamPc = "idle"
    /\ \A c \in ServiceCalls : svc[c].pc = "idle"
    /\ \E profile \in TestProfiles : test' = TestStarted(profile)
    /\ UNCHANGED <<store, svc, uuidCount, serviceLog>>
    /\ UNCHANGED <<regVars, lastCall>>
    /\ UNCHANGED execVars
    /\ UNCHANGED streamVars

\* fetch resolves with a response: the result by its status, or the reading
\* of the models list, or the reading of the text of an unexpected response
TestFetchResolves ==
    /\ test.pc = "fetch"
    /\ ~test.aborted
    /\ \E status \in TestStatuses :
         LET outcome_ == StatusOutcome(test.profile.type, status)
             seen     == [test EXCEPT !.status = {status}]
         IN  test' = IF outcome_ = "authentication"
                     THEN [TestReturned(AuthenticationFailed) EXCEPT !.status = {status}]
                     ELSE IF outcome_ = "success"
                     THEN [TestReturned(TestResult(TRUE, Unset, Unset)) EXCEPT !.status = {status}]
                     ELSE IF outcome_ = "models"
                     THEN [seen EXCEPT !.pc = "json"]
                     ELSE [seen EXCEPT !.pc = "text"]
    /\ UNCHANGED <<store, svc, uuidCount, serviceLog>>
    /\ UNCHANGED <<regVars, lastCall>>
    /\ UNCHANGED execVars
    /\ UNCHANGED streamVars

\* fetch rejects, for the network or for the abort of the timer: the catch
\* block makes the result
TestFetchRejects ==
    /\ test.pc = "fetch"
    /\ test' = TestReturned(CaughtResult(IF test.aborted THEN AbortError ELSE FetchFailed))
    /\ UNCHANGED <<store, svc, uuidCount, serviceLog>>
    /\ UNCHANGED <<regVars, lastCall>>
    /\ UNCHANGED execVars
    /\ UNCHANGED streamVars

\* response.json() settles: with a models list, with something else, or with
\* a rejection (text that is not JSON, or the abort of the timer) that the
\* inner catch block drops
TestJsonSettles ==
    /\ test.pc = "json"
    /\ \E availableModels \in (IF test.aborted THEN {Unset} ELSE {Unset, {<<"gpt-4o">>}}) :
         test' = TestReturned(TestResult(TRUE, Unset, availableModels))
    /\ UNCHANGED <<store, svc, uuidCount, serviceLog>>
    /\ UNCHANGED <<regVars, lastCall>>
    /\ UNCHANGED execVars
    /\ UNCHANGED streamVars

\* response.text().catch(() => '') settles, with the text or with ''
TestTextSettles ==
    /\ test.pc = "text"
    /\ test' = TestReturned(UnexpectedResponse)
    /\ UNCHANGED <<store, svc, uuidCount, serviceLog>>
    /\ UNCHANGED <<regVars, lastCall>>
    /\ UNCHANGED execVars
    /\ UNCHANGED streamVars

\* the timeout of the profile goes by while the test awaits: the callback of
\* the timer aborts the controller
TestTimeoutElapses ==
    /\ test.pc \in {"fetch", "json", "text"}
    /\ test.timer.state = "armed"
    /\ test' = [test EXCEPT !.timer.state = "fired", !.aborted = TRUE]
    /\ UNCHANGED <<store, svc, uuidCount, serviceLog>>
    /\ UNCHANGED <<regVars, lastCall>>
    /\ UNCHANGED execVars
    /\ UNCHANGED streamVars

----------------------------------------------------------------------------
(* The generator of OpenAIProxyProvider.executeQuery *)

\* no call has been made on the profile service in this behaviour
ServiceUntouched ==
    /\ \A c \in ServiceCalls : svc[c].pc = "idle"
    /\ test.pc = "idle"

\* the body of the catch block: the error is logged and the enhanced error is
\* thrown out of the generator
Raise(error) ==
    /\ raised' = {EnhancedError(error, request.profile)}
    /\ streamLog' = Append(streamLog, ErrorLog(error, request.profile))
    /\ streamPc' = "failed"

\* clearTimeout(timeoutId)
ClearTimeout ==
    [timer EXCEPT !.state = IF @ = "armed" THEN "cleared" ELSE @]

\* controller.abort(): the signal is aborted, and a response body that is
\* still being received is errored
Abort(by) ==
    /\ signal' = IF signal.aborted THEN signal ELSE [aborted |-> TRUE, by |-> by]
    /\ responseBody' = IF responseBody = "readable" THEN "errored" ELSE responseBody

\* the generator has been started and has not ended
Running ==
    streamPc \in {"fetch", "read", "yield", "query", "completed"}

\* OpenAIProxyProvider.executeQuery is started and runs up to the fetch: the
\* timer is set and the request is sent with the signal of the controller
ExecuteQueryOpenAI(profile, options) ==
    /\ streamPc = "idle"
    /\ FactoryUntouched
    /\ ServiceUntouched
    /\ request' = [type |-> "openai-compatible", profile |-> profile, options |-> options,
                processEnv |-> [key \in {} |-> ""], model |-> <<"a">>]
    /\ timer' = [state |-> "armed", delay |-> TimeoutOf(profile)]
    /\ streamPc' = "fetch"
    /\ UNCHANGED <<body, readPos, buffer, accumulatedContent, accumulatedToolCalls,
                   pending, emitted, streamLog>>
    /\ UNCHANGED <<signal, elapsed, responseBody, awaited, raised, sdkOptions>>
    /\ UNCHANGED <<regVars, lastCall, serviceVars>>
    /\ UNCHANGED execVars

\* a call with a profile that has no timeout and without an abortController
ExecuteQuery ==
    ExecuteQueryOpenAI(TranslatorProfile("openai-compatible", Unset),
                       [allowedTools |-> Unset, mcpServers |-> Unset,
                        abortController |-> Unset])

\* fetch resolves with an ok response that has a body; the reader is made
FetchOkWith(bodies) ==
    /\ streamPc = "fetch"
    /\ request.type = "openai-compatible"
    /\ ~signal.aborted
    /\ \E b \in bodies : body' = b
    /\ readPos' = 0
    /\ buffer' = <<>>
    /\ accumulatedContent' = <<>>
    /\ accumulatedToolCalls' = <<>>
    /\ responseBody' = "readable"
    /\ awaited' = [of |-> "fetch", failure |-> Unset]
    /\ streamPc' = "read"
    /\ UNCHANGED <<pending, emitted, streamLog>>
    /\ UNCHANGED <<request, timer, signal, elapsed, raised, sdkOptions>>
    /\ UNCHANGED <<regVars, lastCall, serviceVars>>
    /\ UNCHANGED execVars

FetchOk ==
    FetchOkWith(Bodies)

\* 'Hi' and '!' with finish_reason stop in two lines, a tool call in two
\* lines, and the empty body
ScriptedBodies ==
    {<<>>,
     <<DataPrefix, JsonText(ChunkOf({<<"H", "i">>}, Unset, "null")), LF,
       DataPrefix, JsonText(ChunkOf({<<"!">>}, Unset, "stop")), LF>>,
     <<DataPrefix, JsonText(ChunkOf(Unset, {<< ToolDelta(0, {<<"c", "1">>}, {<<"f">>},
                                                         {<<"{">>}) >>}, "null")), LF,
       DataPrefix, JsonText(ChunkOf(Unset, {<< ToolDelta(0, Unset, Unset, {<<"}">>}) >>},
                                    "tool_calls")), LF>>}

FetchOkScripted ==
    FetchOkWith(ScriptedBodies)

\* fetch rejects: the network fails, or the signal has been aborted
FetchRejects ==
    /\ streamPc = "fetch"
    /\ request.type = "openai-compatible"
    /\ LET error == IF signal.aborted THEN AbortError ELSE FetchFailed
       IN  /\ awaited' = [of |-> "fetch", failure |-> {error}]
           /\ Raise(error)
    /\ timer' = ClearTimeout
    /\ UNCHANGED <<body, readPos, buffer, accumulatedContent, accumulatedToolCalls,
                   pending, emitted>>
    /\ UNCHANGED <<request, signal, elapsed, responseBody, sdkOptions>>
    /\ UNCHANGED <<regVars, lastCall, serviceVars>>
    /\ UNCHANGED execVars

\* fetch resolves with a response that is not ok: its text is read and the
\* error made of it is thrown
ResponseNotOk ==
    /\ streamPc = "fetch"
    /\ request.type = "openai-compatible"
    /\ ~signal.aborted
    /\ \E status \in FailureStatuses :
         /\ awaited' = [of |-> "fetch", failure |-> {ApiError(status)}]
         /\ Raise(ApiError(status))
    /\ timer' = ClearTimeout
    /\ UNCHANGED <<body, readPos, buffer, accumulatedContent, accumulatedToolCalls,
                   pending, emitted>>
    /\ UNCHANGED <<request, signal, elapsed, responseBody, sdkOptions>>
    /\ UNCHANGED <<regVars, lastCall, serviceVars>>
    /\ UNCHANGED execVars

\* fetch resolves with an ok response that has no body
ResponseWithoutBody ==
    /\ streamPc = "fetch"
    /\ request.type = "openai-compatible"
    /\ ~signal.aborted
    /\ awaited' = [of |-> "fetch", failure |-> {NoBodyError}]
    /\ Raise(NoBodyError)
    /\ timer' = ClearTimeout
    /\ UNCHANGED <<body, readPos, buffer, accumulatedContent, accumulatedToolCalls,
                   pending, emitted>>
    /\ UNCHANGED <<request, signal, elapsed, responseBody, sdkOptions>>
    /\ UNCHANGED <<regVars, lastCall, serviceVars>>
    /\ UNCHANGED execVars

\* reader.read() hands over the next n pieces of the body; the complete lines
\* are taken off the buffer and worked through up to the first yield, which
\* hands the first message of these lines to the caller
ReaderRead ==
    /\ streamPc = "read"
    /\ responseBody = "readable"
    /\ readPos < Len(body)
    /\ \E n \in 1..(Len(body) - readPos) :
         LET value   == SubSeq(body, readPos + 1, readPos + n)
             lines   == SplitLines(buffer \o value)
             decoder == ProcessLines([accumulatedContent |-> accumulatedContent,
                                      accumulatedToolCalls |-> accumulatedToolCalls,
                                      out |-> <<>>, warnings |-> <<>>],
                                     Pop(lines))
         IN  /\ readPos' = readPos + n
             /\ buffer' = lines[Len(lines)]
             /\ accumulatedContent' = decoder.accumulatedContent
             /\ accumulatedToolCalls' = decoder.accumulatedToolCalls
             /\ emitted' = IF decoder.out = <<>> THEN emitted
                            ELSE Append(emitted, Head(decoder.out))
             /\ pending' = IF decoder.out = <<>> THEN <<>> ELSE Tail(decoder.out)
             /\ streamLog' = streamLog \o decoder.warnings
             /\ streamPc' = IF decoder.out = <<>> THEN "read" ELSE "yield"
    /\ awaited' = [of |-> "read", failure |-> Unset]
    /\ UNCHANGED body
    /\ UNCHANGED <<request, timer, signal, elapsed, responseBody, raised, sdkOptions>>
    /\ UNCHANGED <<regVars, lastCall, serviceVars>>
    /\ UNCHANGED execVars

\* reader.read() reports done: the loop is left and the final message is
\* yielded
ReaderDone ==
    /\ streamPc = "read"
    /\ responseBody \in {"readable", "closed"}
    /\ readPos = Len(body)
    /\ emitted' = Append(emitted, ResultEvent(accumulatedContent))
    /\ responseBody' = "closed"
    /\ awaited' = [of |-> "read", failure |-> Unset]
    /\ streamPc' = "completed"
    /\ UNCHANGED <<body, readPos, buffer, accumulatedContent, accumulatedToolCalls,
                   pending, streamLog>>
    /\ UNCHANGED <<request, timer, signal, elapsed, raised, sdkOptions>>
    /\ UNCHANGED <<regVars, lastCall, serviceVars>>
    /\ UNCHANGED execVars

\* reader.read() rejects: the body has been errored by the abort, or the
\* connection breaks
ReadRejects ==
    /\ streamPc = "read"
    /\ responseBody \in {"readable", "errored"}
    /\ LET error == IF responseBody = "errored" THEN AbortError ELSE FetchFailed
       IN  /\ awaited' = [of |-> "read", failure |-> {error}]
           /\ Raise(error)
    /\ timer' = ClearTimeout
    /\ UNCHANGED <<body, readPos, buffer, accumulatedContent, accumulatedToolCalls,
                   pending, emitted>>
    /\ UNCHANGED <<request, signal, elapsed, responseBody, sdkOptions>>
    /\ UNCHANGED <<regVars, lastCall, serviceVars>>
    /\ UNCHANGED execVars

\* the server ends the body while the generator is not reading
BodyCloses ==
    /\ streamPc = "yield"
    /\ responseBody = "readable"
    /\ readPos = Len(body)
    /\ responseBody' = "closed"
    /\ UNCHANGED <<streamPc, body, readPos, buffer, accumulatedContent,
                   accumulatedToolCalls, pending, emitted, streamLog>>
    /\ UNCHANGED <<request, timer, signal, elapsed, awaited, raised, sdkOptions>>
    /\ UNCHANGED <<regVars, lastCall, serviceVars>>
    /\ UNCHANGED execVars

\* the caller asks for the next message and the generator goes on from its
\* yield: to the next message of the lines read last when there is one, and
\* to the next reader.read(), or the next message of the SDK's stream, when
\* there is none
Resume ==
    /\ streamPc = "yield"
    /\ IF pending # <<>>
       THEN /\ emitted' = Append(emitted, Head(pending))
            /\ pending' = Tail(pending)
            /\ UNCHANGED streamPc
       ELSE /\ streamPc' = IF request.type = "anthropic-compatible" THEN "query" ELSE "read"
            /\ UNCHANGED <<emitted, pending>>
    /\ UNCHANGED <<body, readPos, buffer, accumulatedContent, accumulatedToolCalls, streamLog>>
    /\ UNCHANGED <<request, timer, signal, elapsed, responseBody, awaited, raised, sdkOptions>>
    /\ UNCHANGED <<regVars, lastCall, serviceVars>>
    /\ UNCHANGED execVars

\* the caller asks for the message behind the final one: the generator
\* returns through its finally block
Return ==
    /\ streamPc = "completed"
    /\ timer' = ClearTimeout
    /\ streamPc' = "returned"
    /\ UNCHANGED <<body, readPos, buffer, accumulatedContent, accumulatedToolCalls,
                   pending, emitted, streamLog>>
    /\ UNCHANGED <<request, signal, elapsed, responseBody, awaited, raised, sdkOptions>>
    /\ UNCHANGED <<regVars, lastCall, serviceVars>>
    /\ UNCHANGED execVars

\* profile.timeout (30000 ms when the profile has none) has gone by since the
\* call was started; a timer that is set runs its callback, controller.abort()
TimeoutElapses ==
    /\ Running
    /\ ~elapsed
    /\ elapsed' = TRUE
    /\ IF timer.state = "armed"
       THEN /\ timer' = [timer EXCEPT !.state = "fired"]
            /\ Abort("timeout")
       ELSE UNCHANGED <<timer, signal, responseBody>>
    /\ UNCHANGED <<streamPc, body, readPos, buffer, accumulatedContent,
                   accumulatedToolCalls, pending, emitted, streamLog>>
    /\ UNCHANGED <<request, awaited, raised, sdkOptions>>
    /\ UNCHANGED <<regVars, lastCall, serviceVars>>
    /\ UNCHANGED execVars

\* the caller aborts the controller it passed in options.abortController
CallerAborts ==
    /\ Running
    /\ request.options.abortController # Unset
    /\ ~signal.aborted
    /\ Abort("caller")
    /\ UNCHANGED <<streamPc, body, readPos, buffer, accumulatedContent,
                   accumulatedToolCalls, pending, emitted, streamLog>>
    /\ UNCHANGED <<request, timer, elapsed, awaited, raised, sdkOptions>>
    /\ UNCHANGED <<regVars, lastCall, serviceVars>>
    /\ UNCHANGED execVars

\* the consumer leaves its for-await loop at a message it was handed: the
\* generator is returned at its yield and runs its finally block
ConsumerReturns ==
    /\ streamPc = "yield"
    /\ request.type = "openai-compatible"
    /\ timer' = ClearTimeout
    /\ streamPc' = "returned"
    /\ UNCHANGED <<body, readPos, buffer, accumulatedContent, accumulatedToolCalls,
                   pending, emitted, streamLog>>
    /\ UNCHANGED <<request, signal, elapsed, responseBody, awaited, raised, sdkOptions>>
    /\ UNCHANGED <<regVars, lastCall, serviceVars>>
    /\ UNCHANGED execVars

\* profile.timeout goes by after the generator has ended; a timer that were
\* still set would run its callback
TimeoutElapsesAfterEnd ==
    /\ streamPc \in {"failed", "returned"}
    /\ request.type = "openai-compatible"
    /\ ~elapsed
    /\ elapsed' = TRUE
    /\ IF timer.state = "armed"
       THEN /\ timer' = [timer EXCEPT !.state = "fired"]
            /\ Abort("timeout")
       ELSE UNCHANGED <<timer, signal, responseBody>>
    /\ UNCHANGED <<streamPc, body, readPos, buffer, accumulatedContent,
                   accumulatedToolCalls, pending, emitted, streamLog>>
    /\ UNCHANGED <<request, awaited, raised, sdkOptions>>
    /\ UNCHANGED <<regVars, lastCall, serviceVars>>
    /\ UNCHANGED execVars

\* const controller = abortController ?? new AbortController(): the signal of
\* the controller of a call that follows another with the same options
ControllerSignal(options, callerSignal) ==
    IF options.abortController # Unset THEN callerSignal ELSE NotAborted

\* the first call has thrown and executeWithFallback goes on to the next
\* candidate: the executor calls executeQuery of that provider with the
\* options of the first call
ExecuteQueryOfNextCandidate ==
    /\ streamPc = "failed"
    /\ request.type = "openai-compatible"
    /\ \A k \in 1..(Len(streamLog) - 1) : streamLog[k].level # "error"
    /\ \E profile \in OpenAIProfiles :
         /\ request' = [request EXCEPT !.profile = profile]
         /\ timer' = [state |-> "armed", delay |-> TimeoutOf(profile)]
    /\ signal' = ControllerSignal(request.options, signal)
    /\ elapsed' = FALSE
    /\ responseBody' = "none"
    /\ awaited' = NothingAwaited
    /\ raised' = Unset
    /\ body' = <<>>
    /\ readPos' = 0
    /\ buffer' = <<>>
    /\ accumulatedContent' = <<>>
    /\ accumulatedToolCalls' = <<>>
    /\ pending' = <<>>
    /\ emitted' = <<>>
    /\ streamPc' = "fetch"
    /\ UNCHANGED <<streamLog, sdkOptions>>
    /\ UNCHANGED <<regVars, lastCall, serviceVars>>
    /\ UNCHANGED execVars

----------------------------------------------------------------------------
(* The generator of AnthropicProxyProvider.executeQuery *)

\* the generator is started and runs up to the first message of the SDK's
\* stream: the options are built and query() is called with them
ExecuteQueryAnthropic(profile, options, processEnv) ==
    /\ streamPc = "idle"
    /\ FactoryUntouched
    /\ ServiceUntouched
    /\ request' = [type |-> "anthropic-compatible", profile |-> profile, options |-> options,
                processEnv |-> processEnv, model |-> <<"a">>]
    /\ sdkOptions' = {SdkOptionsOf(<<"a">>, options, processEnv, profile)}
    /\ streamPc' = "query"
    /\ UNCHANGED <<body, readPos, buffer, accumulatedContent, accumulatedToolCalls,
                   pending, emitted, streamLog>>
    /\ UNCHANGED <<timer, signal, elapsed, responseBody, awaited, raised>>
    /\ UNCHANGED <<regVars, lastCall, serviceVars>>
    /\ UNCHANGED execVars

\* the SDK's stream hands over a message, which is yielded as it is; none
\* follows a result message
SdkMessage ==
    /\ streamPc = "query"
    /\ Len(emitted) < MaxSdkMessages
    /\ \A k \in 1..Len(emitted) : emitted[k].type # "result"
    /\ \E msg \in SdkMessages : emitted' = Append(emitted, msg)
    /\ awaited' = [of |-> "next", failure |-> Unset]
    /\ streamPc' = "yield"
    /\ UNCHANGED <<body, readPos, buffer, accumulatedContent, accumulatedToolCalls,
                   pending, streamLog>>
    /\ UNCHANGED <<request, timer, signal, elapsed, responseBody, raised, sdkOptions>>
    /\ UNCHANGED <<regVars, lastCall, serviceVars>>
    /\ UNCHANGED execVars

\* the SDK's stream ends: the loop is left and the generator returns
SdkDone ==
    /\ streamPc = "query"
    /\ awaited' = [of |-> "next", failure |-> Unset]
    /\ streamPc' = "returned"
    /\ UNCHANGED <<body, readPos, buffer, accumulatedContent, accumulatedToolCalls,
                   pending, emitted, streamLog>>
    /\ UNCHANGED <<request, timer, signal, elapsed, responseBody, raised, sdkOptions>>
    /\ UNCHANGED <<regVars, lastCall, serviceVars>>
    /\ UNCHANGED execVars

\* the SDK's stream throws: an error of its own, or the abort of the
\* controller it was given
SdkThrows ==
    /\ streamPc = "query"
    /\ \E error \in {SdkError} \cup (IF signal.aborted THEN {AbortError} ELSE {}) :
         /\ awaited' = [of |-> "next", failure |-> {error}]
         /\ Raise(error)
    /\ UNCHANGED <<body, readPos, buffer, accumulatedContent, accumulatedToolCalls,
                   pending, emitted>>
    /\ UNCHANGED <<request, timer, signal, elapsed, responseBody, sdkOptions>>
    /\ UNCHANGED <<regVars, lastCall, serviceVars>>
    /\ UNCHANGED execVars

----------------------------------------------------------------------------
(* Specifications *)

\* the generator of executeQuery has not been started in this behaviour
StreamUntouched ==
    streamPc = "idle"

Next ==
    \/ ServiceUntouched /\ StreamUntouched /\ RegisterProvider
    \/ ServiceUntouched /\ StreamUntouched /\ GetProviderForModel
    \/ ServiceUntouched /\ StreamUntouched /\ GetFallbackProviders
    \/ ServiceUntouched /\ StreamUntouched /\ GetProviderForModelWithProfiles
    \/ ServiceUntouched /\ StreamUntouched /\ MapModel
    \/ ServiceUntouched /\ StreamUntouched /\ ValidateBaseUrlSsrf
    \/ ServiceUntouched /\ StreamUntouched /\ ValidateAgain
    \/ ServiceUntouched /\ StreamUntouched /\ Start
    \/ ServiceUntouched /\ StreamUntouched /\ Resolve
    \/ ServiceUntouched /\ StreamUntouched /\ Reject
    \/ \E c \in Callers : StreamUntouched /\ CreateProfile(c)
    \/ \E c \in Callers : CreateProfileRead(c)
    \/ \E c \in Callers : CreateProfileWritten(c)
    \/ \E c \in Callers : StreamUntouched /\ UpdateProfile(c)
    \/ \E c \in Callers : UpdateProfileRead(c)
    \/ \E c \in Callers : UpdateProfileWritten(c)
    \/ \E c \in Callers : StreamUntouched /\ DeleteProfile(c)
    \/ \E c \in Callers : DeleteProfileRead(c)
    \/ \E c \in Callers : DeleteProfileWritten(c)
    \/ \E c \in Callers : StreamUntouched /\ DuplicateProfile(c)
    \/ \E c \in Callers : DuplicateProfileRead(c)
    \/ \E c \in Callers : StreamUntouched /\ SaveConnectionTestResult(c)
    \/ \E c \in Callers : SaveConnectionTestResultRead(c)
    \/ \E c \in Callers : SaveConnectionTestResultWritten(c)
    \/ StreamUntouched /\ ReorderProfiles
    \/ ReorderProfilesRead
    \/ ReorderProfilesWritten
    \/ TestConnection
    \/ TestConnectionRead
    \/ TestProfileConnection
    \/ TestFetchResolves
    \/ TestFetchRejects
    \/ TestJsonSettles
    \/ TestTextSettles
    \/ TestTimeoutElapses
    \/ \E profile \in OpenAIProfiles, options \in PlainOptions :
           ExecuteQueryOpenAI(profile, options)
    \/ FetchOk
    \/ FetchRejects
    \/ ResponseNotOk
    \/ ResponseWithoutBody
    \/ ReaderRead
    \/ ReaderDone
    \/ ReadRejects
    \/ BodyCloses
    \/ Resume
    \/ Return
    \/ TimeoutElapses
    \/ CallerAborts
    \/ \E profile \in AnthropicProfiles, options \in ExecuteOptions, processEnv \in ProcessEnvs :
           ExecuteQueryAnthropic(profile, options, processEnv)
    \/ SdkMessage
    \/ SdkDone
    \/ SdkThrows

Spec ==
    Init /\ [][Next]_vars

\* one executeWithFallback call against the registry as loaded
NextExec ==
    \/ Start
    \/ Resolve
    \/ Reject

SpecExec ==
    Init /\ [][NextExec]_vars

\* chain construction after any registrations
NextChain ==
    \/ RegisterProvider
    \/ GetFallbackProviders

SpecChain ==
    Init /\ [][NextChain]_vars

\* name and provider resolution after any registrations
NextRegistry ==
    \/ RegisterProvider
    \/ GetProviderForModel

SpecRegistry ==
    Init /\ [][NextRegistry]_vars

\* one call on the model mapper
NextMapper ==
    MapModel

SpecMapper ==
    Init /\ [][NextMapper]_vars

\* two calls on the SSRF guard with one URL
NextSsrf ==
    \/ ValidateBaseUrlSsrf
    \/ ValidateAgain

SpecSsrf ==
    Init /\ [][NextSsrf]_vars

\* calls on the profile service, one after the other
NextStore ==
    \/ \E c \in Callers : NoneInFlight /\ CreateProfile(c)
    \/ \E c \in Callers : CreateProfileRead(c)
    \/ \E c \in Callers : CreateProfileWritten(c)

SpecStore ==
    Init /\ [][NextStore]_vars

\* profiles are created and then reordered, one call after the other
NextReorder ==
    \/ \E c \in Callers : NoneInFlight /\ CreateProfileOf(c, ReorderInputs)
    \/ \E c \in Callers : CreateProfileRead(c)
    \/ \E c \in Callers : CreateProfileWritten(c)
    \/ NoneInFlight /\ ReorderProfiles
    \/ ReorderProfilesRead
    \/ ReorderProfilesWritten

SpecReorder ==
    Init /\ [][NextReorder]_vars

\* one connection test
NextConnectionTest ==
    \/ TestConnection
    \/ TestConnectionRead
    \/ TestProfileConnection
    \/ TestFetchResolves
    \/ TestFetchRejects
    \/ TestJsonSettles
    \/ TestTextSettles
    \/ TestTimeoutElapses

SpecConnectionTest ==
    Init /\ [][NextConnectionTest]_vars

\* one streamed response of the OpenAI-compatible provider
\* the decoding of a response that arrives whole: no timeout, no abort and no
\* failure of the network
NextStream ==
    \/ ExecuteQuery
    \/ FetchOk
    \/ ReaderRead
    \/ ReaderDone
    \/ Resume
    \/ Return

SpecStream ==
    Init /\ [][NextStream]_vars

\* both translators, with timeouts, aborts and failures, on the scripted bodies
NextTranslators ==
    \/ \E profile \in OpenAIProfiles, options \in PlainOptions :
           ExecuteQueryOpenAI(profile, options)
    \/ FetchOkScripted
    \/ FetchRejects
    \/ ResponseNotOk
    \/ ResponseWithoutBody
    \/ ReaderRead
    \/ ReaderDone
    \/ ReadRejects
    \/ BodyCloses
    \/ Resume
    \/ Return
    \/ TimeoutElapses
    \/ CallerAborts
    \/ \E profile \in AnthropicProfiles, options \in ExecuteOptions, processEnv \in ProcessEnvs :
           ExecuteQueryAnthropic(profile, options, processEnv)
    \/ SdkMessage
    \/ SdkDone
    \/ SdkThrows

SpecTranslators ==
    Init /\ [][NextTranslators]_vars

\* one call of the primary selection, on the registry as the module loads it
NextSelect ==
    GetProviderForModelWithProfiles

SpecSelect ==
    Init /\ [][NextSelect]_vars

\* calls of every operation that writes the profile list, one after the other
NextProfiles ==
    \/ \E c \in Callers : NoneInFlight /\ CreateProfileOf(c, ProfileInputs)
    \/ \E c \in Callers : CreateProfileRead(c)
    \/ \E c \in Callers : CreateProfileWritten(c)
    \/ \E c \in Callers : NoneInFlight /\ UpdateProfile(c)
    \/ \E c \in Callers : UpdateProfileRead(c)
    \/ \E c \in Callers : UpdateProfileWritten(c)
    \/ \E c \in Callers : NoneInFlight /\ DeleteProfile(c)
    \/ \E c \in Callers : DeleteProfileRead(c)
    \/ \E c \in Callers : DeleteProfileWritten(c)
    \/ \E c \in Callers : NoneInFlight /\ DuplicateProfile(c)
    \/ \E c \in Callers : DuplicateProfileRead(c)
    \/ \E c \in Callers : NoneInFlight /\ SaveConnectionTestResult(c)
    \/ \E c \in Callers : SaveConnectionTestResultRead(c)
    \/ \E c \in Callers : SaveConnectionTestResultWritten(c)
    \/ NoneInFlight /\ ReorderProfilesOf({<<1>>})
    \/ ReorderProfilesRead
    \/ ReorderProfilesWritten

SpecProfiles ==
    Init /\ [][NextProfiles]_vars

\* the inputs of the updates that run beside other calls: the first profile
\* is given allowInternalUrls, nothing else
InterleavedUpdates ==
    {input \in UpdateInputs :
        input.id = 1 /\ input.baseUrl = Unset /\ input.allowInternalUrls = {TRUE}}

\* calls on the profile service that run beside each other: a call may start
\* while another is between its settings read and its settings write
NextInterleaved ==
    \/ \E c \in Callers : CreateProfileOf(c, ReorderInputs)
    \/ \E c \in Callers : CreateProfileRead(c)
    \/ \E c \in Callers : CreateProfileWritten(c)
    \/ \E c \in Callers : UpdateProfileOf(c, InterleavedUpdates)
    \/ \E c \in Callers : UpdateProfileRead(c)
    \/ \E c \in Callers : UpdateProfileWritten(c)
    \/ ReorderProfilesOf({<<1>>})
    \/ ReorderProfilesRead
    \/ ReorderProfilesWritten

SpecInterleaved ==
    Init /\ [][NextInterleaved]_vars

\* calls of the OpenAI-compatible translator on two candidates in turn, with
\* the options of one caller, on the scripted bodies
NextCandidates ==
    \/ \E profile \in OpenAIProfiles, options \in PlainOptions :
           ExecuteQueryOpenAI(profile, options)
    \/ FetchOkScripted
    \/ FetchRejects
    \/ ResponseNotOk
    \/ ResponseWithoutBody
    \/ ReaderRead
    \/ ReaderDone
    \/ ReadRejects
    \/ BodyCloses
    \/ Resume
    \/ Return
    \/ ConsumerReturns
    \/ TimeoutElapses
    \/ TimeoutElapsesAfterEnd
    \/ CallerAborts
    \/ ExecuteQueryOfNextCandidate

SpecCandidates ==
    Init /\ [][NextCandidates]_vars

\* the lines of a stream of tool calls: a call that is given its id and its
\* name, the rest of its arguments with finish_reason tool_calls, a second
\* call that gets its name with finish_reason stop, and a text with
\* finish_reason stop
ToolCallLines ==
    {<<DataPrefix, JsonText(chunk), LF>> :
        chunk \in {ChunkOf(Unset, {<< ToolDelta(0, {<<"c", "1">>}, {<<"f">>}, {<<"{">>}) >>},
                           "null"),
                   ChunkOf(Unset, {<< ToolDelta(0, Unset, Unset, {<<"}">>}) >>}, "tool_calls"),
                   ChunkOf(Unset, {<< ToolDelta(1, {<<"c", "2">>}, {<<"g">>}, Unset) >>}, "stop"),
                   ChunkOf({<<"!">>}, Unset, "stop")}}

\* the bodies of three of these lines
ToolCallBodies ==
    {first \o second \o third : first \in ToolCallLines, second \in ToolCallLines,
                                third \in ToolCallLines}

\* one streamed response that carries tool calls and finish chunks
NextToolCalls ==
    \/ ExecuteQuery
    \/ FetchOkWith(ToolCallBodies)
    \/ ReaderRead
    \/ ReaderDone
    \/ Resume
    \/ Return

SpecToolCalls ==
    Init /\ [][NextToolCalls]_vars

----------------------------------------------------------------------------
(* Properties of executeWithFallback, checked under SpecExec *)

Terminal ==
    {"Succeeded", "Failed"}

\* chain positions (0-based) on which the given executor resolves
Succeeding ==
    {k \in 0..(Len(providers) - 1) : executor[k + 1] = "resolve"}

\* the first of them in chain order
FirstSucceeding ==
    CHOOSE k \in Succeeding : \A l \in Succeeding : k <= l

WarnCount ==
    Cardinality({k \in 1..Len(logs) : logs[k].level = "warn"})

WarnsFor(c) ==
    Cardinality({k \in 1..Len(logs) : logs[k].level = "warn" /\ logs[k].provider = c})

\* C1: the call returns the result of the first candidate, in chain order,
\* whose operation succeeds, and the executor is never called on a candidate
\* behind a succeeding one.
C1_FirstSuccessWins ==
    /\ \A a \in 1..Len(invoked) :
         \A k \in 0..(invoked[a] - 1) : executor[k + 1] = "reject"
    /\ pc = "Succeeded" =>
         /\ outcome = [kind |-> "returned", value |-> ResultOf(FirstSucceeding)]
         /\ \A a \in 1..Len(invoked) : invoked[a] <= FirstSucceeding

\* the second of three candidates succeeded and the third was left alone
C1_Witness ==
    /\ pc = "Succeeded"
    /\ Len(providers) = 3
    /\ executor = <<"reject", "resolve", "resolve">>
    /\ outcome.value = ResultOf(1)

\* C2: when every candidate fails the call throws the error of the last
\* candidate of the chain, not the first one's and not a summary of several.
C2_LastErrorThrown ==
    pc = "Failed" =>
        /\ outcome = [kind |-> "thrown", error |-> ErrorOf(Len(providers) - 1)]
        /\ Len(providers) > 1 => outcome.error # ErrorOf(0)

\* a chain of two or more candidates is exhausted
C2_Witness ==
    /\ pc = "Failed"
    /\ Len(providers) >= 2
    /\ outcome.kind = "thrown"

\* the errors the executor rejects with on the candidates of the chain
BareErrors ==
    {ErrorOf(k) : k \in 0..(Len(providers) - 1)}

\* C3 as stated: the error thrown on exhaustion is wrapped, so it differs
\* from every error a provider of the chain raises by itself.
C3_WrappedAsStated ==
    pc = "Failed" => outcome.kind = "thrown" /\ outcome.error \notin BareErrors

\* C3, amended: the error thrown on exhaustion is not wrapped; it is the very
\* error object held in lastError, one of the errors the providers raised.
C3_ThrownUnwrapped ==
    pc = "Failed" =>
        /\ outcome.kind = "thrown"
        /\ outcome.error = lastError
        /\ outcome.error \in BareErrors

\* the chain of a single provider is exhausted
C3_Witness ==
    /\ pc = "Failed"
    /\ Len(providers) = 1
    /\ outcome.error = ErrorOf(0)

\* C4: one warn record per failed candidate and none for a succeeding one:
\* k failures before a success leave k records, an exhausted chain of n
\* candidates leaves n.
C4_OneWarnPerFailure ==
    /\ \A c \in 0..(Len(providers) - 1) :
         WarnsFor(c) = IF /\ \E a \in 1..Len(invoked) : invoked[a] = c
                          /\ c \notin inFlight
                          /\ executor[c + 1] = "reject"
                       THEN 1 ELSE 0
    /\ pc = "Succeeded" => WarnCount = outcome.value.from
    /\ pc = "Failed" => WarnCount = Len(providers)

\* two candidates failed, the third succeeded, two warn records
C4_Witness ==
    /\ pc = "Succeeded"
    /\ outcome.value = ResultOf(2)
    /\ WarnCount = 2

\* C5: Pending -> Trying(0) -> Trying(1) -> ... -> Succeeded or Failed: the
\* index only moves to its successor, each candidate is called at most once
\* and in chain order, at most one operation is in flight, and a terminal
\* state is never left.
C5_Step ==
    /\ pc \notin Terminal
    /\ pc = "Pending" => pc' = "Trying" /\ i' = 0 /\ invoked' = <<0>>
    /\ pc = "Trying" =>
         \/ pc' = "Trying" /\ i' = i + 1 /\ invoked' = Append(invoked, i + 1)
         \/ pc' = "Succeeded" /\ i' = i /\ invoked' = invoked
         \/ pc' = "Failed" /\ i' = Len(providers) /\ invoked' = invoked
    /\ \A a, b \in 1..Len(invoked') : a < b => invoked'[a] < invoked'[b]
    /\ Cardinality(inFlight') <= 1
    /\ pc' = "Trying" => inFlight' = {i'}
    /\ pc' \in Terminal => inFlight' = {}

C5_StateMachine ==
    [][C5_Step]_vars

\* all three candidates were tried in turn and the chain is exhausted
C5_Witness ==
    /\ pc = "Failed"
    /\ invoked = <<0, 1, 2>>
    /\ i = 3

----------------------------------------------------------------------------
(* Properties of getFallbackProviders, checked under SpecChain *)

ChainBuilt ==
    lastCall.op = "getFallbackProviders"

\* a Claude-family id: 'claude-' in front, or 'opus', 'sonnet' or 'haiku' inside
IsClaudeFamily(m) ==
    LET l == ToLowerCase(m)
    IN  \/ StartsWith(l, StrClaudeDash)
        \/ Includes(l, StrOpus)
        \/ Includes(l, StrSonnet)
        \/ Includes(l, StrHaiku)

\* an id with 'gpt-', 'o1' or 'o3' in front
IsOpenAILike(m) ==
    LET l == ToLowerCase(m)
    IN  StartsWith(l, StrGptDash) \/ StartsWith(l, StrO1) \/ StartsWith(l, StrO3)

\* the positions of a list that hold an active profile of type t
ActiveOfType(ps, t) ==
    {j \in 1..Len(ps) : ps[j].isActive /\ ps[j].type = t}

\* the k-th of these positions, counted from the front of the list
KthActiveOfType(ps, t, k) ==
    CHOOSE j \in ActiveOfType(ps, t) :
        Cardinality({l \in ActiveOfType(ps, t) : l <= j}) = k

\* the place of a profile in a list of profiles with distinct ids
PositionOf(ps, p) ==
    CHOOSE j \in 1..Len(ps) : ps[j].id = p.id

\* C6: for a Claude-family model id and a list with N active
\* anthropic-compatible profiles the chain has exactly N+1 candidates: the N
\* profile-backed providers in the order of the list, then a provider made by
\* the registry.
C6_ClaudeChainLength ==
    ChainBuilt /\ IsClaudeFamily(lastCall.modelId) =>
        LET ps    == lastCall.profiles
            chain == lastCall.result
            N     == Cardinality(ActiveOfType(ps, "anthropic-compatible"))
        IN  /\ Len(chain) = N + 1
            /\ \A k \in 1..N :
                 /\ chain[k].kind = "AnthropicProxyProvider"
                 /\ chain[k].profile = ps[KthActiveOfType(ps, "anthropic-compatible", k)]
            /\ chain[N + 1].kind = "registered"

\* a Claude-family id with two active anthropic-compatible profiles behind an
\* inactive one: three candidates
C6_Witness ==
    /\ ChainBuilt
    /\ IsClaudeFamily(lastCall.modelId)
    /\ Cardinality(ActiveOfType(lastCall.profiles, "anthropic-compatible")) = 2
    /\ Len(lastCall.result) = 3

\* C7: the chain is never empty and its last element is the provider that
\* getProviderForModel yields for the model id.
C7_DefaultLast ==
    ChainBuilt =>
        LET chain == lastCall.result
        IN  /\ Len(chain) >= 1
            /\ chain[Len(chain)].kind = "registered"
            /\ chain[Len(chain)] = getProviderForModel(lastCall.modelId, registry)

\* behind a profile-backed provider stands the provider of a registration
\* made after module load
C7_Witness ==
    /\ ChainBuilt
    /\ Len(lastCall.result) = 2
    /\ lastCall.result[2] = Instance("Factory1")

\* C8: the profile-backed part of the chain holds one provider for each
\* profile that is active and of the model's profile type and nothing else,
\* in the order of the list, whatever the priorities are.
C8_ProfilePart ==
    ChainBuilt =>
        LET ps    == lastCall.profiles
            chain == lastCall.result
            t     == lastCall.profileType
            n     == Len(chain) - 1
        IN  /\ \A k \in 1..n :
                 /\ chain[k].kind \in {"AnthropicProxyProvider", "OpenAIProxyProvider"}
                 /\ chain[k].kind = "AnthropicProxyProvider" <=> t = "anthropic-compatible"
                 /\ \E j \in ActiveOfType(ps, t) : chain[k].profile = ps[j]
            /\ \A j \in ActiveOfType(ps, t) : \E k \in 1..n : chain[k].profile = ps[j]
            /\ n = Cardinality(ActiveOfType(ps, t))
            /\ \A a, b \in 1..n :
                 a < b => PositionOf(ps, chain[a].profile) < PositionOf(ps, chain[b].profile)

\* two active profiles of the model's type, the lower priority given first
\* and kept first
C8_Witness ==
    /\ ChainBuilt
    /\ Len(lastCall.result) = 3
    /\ lastCall.result[1].profile.priority < lastCall.result[2].profile.priority

\* only the provider of the registry is in the chain
OnlyDefault ==
    /\ Len(lastCall.result) = 1
    /\ lastCall.result[1].kind = "registered"

\* C9 as stated: Claude-family ids get anthropic-compatible, ids with 'gpt-',
\* 'o1' or 'o3' in front get openai-compatible, every other id gets none and
\* then the chain is the registry's provider alone.
C9_AffinityAsStated ==
    ChainBuilt =>
        LET m == lastCall.modelId
            t == lastCall.profileType
        IN  /\ IsClaudeFamily(m) => t = "anthropic-compatible"
            /\ IsOpenAILike(m) => t = "openai-compatible"
            /\ ~IsClaudeFamily(m) /\ ~IsOpenAILike(m) => t = "null" /\ OnlyDefault

\* C9, amended: the Claude-family test comes first; an id with 'gpt-', 'o1'
\* or 'o3' in front gets openai-compatible only when it is not Claude-family.
C9_AffinityInOrder ==
    ChainBuilt =>
        LET m == lastCall.modelId
            t == lastCall.profileType
        IN  /\ IsClaudeFamily(m) => t = "anthropic-compatible"
            /\ IsOpenAILike(m) /\ ~IsClaudeFamily(m) => t = "openai-compatible"
            /\ ~IsClaudeFamily(m) /\ ~IsOpenAILike(m) => t = "null" /\ OnlyDefault

\* an id in upper case with 'o3' in front is given active profiles of both
\* types and the chain holds the openai-compatible one
C9_Witness ==
    /\ ChainBuilt
    /\ lastCall.modelId = <<"O", "3", "x">>
    /\ lastCall.profileType = "openai-compatible"
    /\ ActiveOfType(lastCall.profiles, "anthropic-compatible") # {}
    /\ Len(lastCall.result) = 2
    /\ lastCall.result[1].kind = "OpenAIProxyProvider"

----------------------------------------------------------------------------
(* Properties of getProviderNameForModel, checked under SpecRegistry *)

NameResolved ==
    lastCall.op = "getProviderForModel"

\* registrations whose predicate accepts the lower-cased model id
Accepting(m) ==
    {k \in 1..Len(registry) : CanHandle(registry[k].canHandleModel, ToLowerCase(m))}

\* registrations whose name and a dash stand in front of the lower-cased model id
Prefixing(m) ==
    {k \in 1..Len(registry) : StartsWith(ToLowerCase(m), registry[k].name \o <<"-">>)}

\* the names of the registrations of S that no registration of S outranks
TopNames(S) ==
    {registry[k].name : k \in {j \in S : \A l \in S : Prio(registry[j]) >= Prio(registry[l])}}

\* C10: the name is that of the highest-priority registration whose predicate
\* accepts the lower-cased id; if none accepts, of the highest-priority one
\* whose name and a dash prefix the id; if none does, 'claude'.  A lower
\* priority predicate match beats a higher priority prefix match.
C10_TwoPhases ==
    NameResolved =>
        LET m == lastCall.modelId
        IN  IF Accepting(m) # {} THEN lastCall.name \in TopNames(Accepting(m))
            ELSE IF Prefixing(m) # {} THEN lastCall.name \in TopNames(Prefixing(m))
            ELSE lastCall.name = StrClaude

\* a registration of higher priority matches by prefix only, and the name of
\* a lower-priority registration whose predicate accepts is returned
C10_Witness ==
    /\ NameResolved
    /\ \E k \in Accepting(lastCall.modelId) :
         /\ registry[k].name = lastCall.name
         /\ \E j \in Prefixing(lastCall.modelId) \ Accepting(lastCall.modelId) :
              Prio(registry[j]) > Prio(registry[k])

\* registrations whose name and a dash stand in front of the model id as given
RawPrefixing(m) ==
    {k \in 1..Len(registry) : StartsWith(m, registry[k].name \o <<"-">>)}

\* C11 as stated: the prefix phase is case-sensitive, so an id that no
\* predicate accepts and that carries no registered name and dash in front
\* in the very same letter case resolves to the default 'claude'.
C11_CaseSensitiveAsStated ==
    NameResolved /\ Accepting(lastCall.modelId) = {} /\ RawPrefixing(lastCall.modelId) = {} =>
        lastCall.name = StrClaude

\* C11, amended: the prefix phase ignores letter case: the model id is
\* lower-cased, and so is every registered name, before the two are compared;
\* an id that no predicate accepts resolves to a name that, with a dash,
\* stands in front of the lower-cased id whenever there is such a name.
C11_PrefixIgnoresCase ==
    NameResolved /\ Accepting(lastCall.modelId) = {} /\ Prefixing(lastCall.modelId) # {} =>
        /\ StartsWith(ToLowerCase(lastCall.modelId), lastCall.name \o <<"-">>)
        /\ lastCall.name = ToLowerCase(lastCall.name)

\* 'GPT-4' resolves to the registration made under the name 'GPT', held as 'gpt'
C11_Witness ==
    /\ NameResolved
    /\ lastCall.modelId = <<"G", "P", "T", "-", "4">>
    /\ Accepting(lastCall.modelId) = {}
    /\ RawPrefixing(lastCall.modelId) = {}
    /\ lastCall.name = ToLowerCase(StrGPT)

\* the registrations that decide a lookup: those whose predicate accepts, or,
\* when there is none, those that match by prefix
Deciding(m) ==
    IF Accepting(m) # {} THEN Accepting(m) ELSE Prefixing(m)

\* those of S that no registration of S outranks
TopOf(S) ==
    {j \in S : \A l \in S : Prio(registry[j]) >= Prio(registry[l])}

\* the registerProvider calls made for the name of registry entry k
CallsFor(k) ==
    {c \in 1..Len(regLog) : ToLowerCase(regLog[c].name) = registry[k].name}

\* when that name was registered first, and when last
FirstRegisteredAt(k) ==
    CHOOSE c \in CallsFor(k) : \A d \in CallsFor(k) : c <= d

LastRegisteredAt(k) ==
    CHOOSE c \in CallsFor(k) : \A d \in CallsFor(k) : c >= d

\* C12 as stated: among the matching registrations of highest priority the
\* one that was registered earlier is returned, re-registrations included.
C12_TiesByRegistrationAsStated ==
    NameResolved /\ Deciding(lastCall.modelId) # {} =>
        \E k \in TopOf(Deciding(lastCall.modelId)) :
            /\ lastCall.name = registry[k].name
            /\ \A l \in TopOf(Deciding(lastCall.modelId)) :
                 LastRegisteredAt(k) <= LastRegisteredAt(l)

\* C12, amended: among the matching registrations of highest priority the one
\* whose name was registered first is returned; a re-registration keeps the
\* place its name got when it was first registered.
C12_TiesByFirstRegistration ==
    NameResolved /\ Deciding(lastCall.modelId) # {} =>
        \E k \in TopOf(Deciding(lastCall.modelId)) :
            /\ lastCall.name = registry[k].name
            /\ \A l \in TopOf(Deciding(lastCall.modelId)) :
                 FirstRegisteredAt(k) <= FirstRegisteredAt(l)

\* two matching registrations tie, and the one returned was re-registered
\* after the other one was made
C12_Witness ==
    /\ NameResolved
    /\ \E k, l \in TopOf(Deciding(lastCall.modelId)) :
         /\ k # l
         /\ lastCall.name = registry[k].name
         /\ LastRegisteredAt(k) > LastRegisteredAt(l)

\* the keys registered so far
RegisteredKeys ==
    {ToLowerCase(regLog[c].name) : c \in 1..Len(regLog)}

\* the registration last made under a key, as the registry is to hold it
LatestFor(key) ==
    LET calls == {c \in 1..Len(regLog) : ToLowerCase(regLog[c].name) = key}
        last  == CHOOSE c \in calls : \A d \in calls : c >= d
    IN  [regLog[last].registration EXCEPT !.name = key]

\* the latest registrations that decide a lookup, by predicate or else by prefix
LatestDeciding(m) ==
    LET accepting == {key \in RegisteredKeys :
                         CanHandle(LatestFor(key).canHandleModel, ToLowerCase(m))}
        prefixing == {key \in RegisteredKeys :
                         StartsWith(ToLowerCase(m), key \o <<"-">>)}
    IN  IF accepting # {} THEN accepting ELSE prefixing

\* C13: the registry holds exactly one entry per registered name, the one
\* registered last under it, and a lookup goes by the predicate, the priority
\* and the factory of these last registrations.
C13_LastRegistrationWins ==
    /\ \A a, b \in 1..Len(registry) : registry[a].name = registry[b].name => a = b
    /\ {registry[k].name : k \in 1..Len(registry)} = RegisteredKeys
    /\ \A k \in 1..Len(registry) : registry[k] = LatestFor(registry[k].name)
    /\ NameResolved =>
         /\ LatestDeciding(lastCall.modelId) # {} =>
              /\ lastCall.name \in LatestDeciding(lastCall.modelId)
              /\ \A key \in LatestDeciding(lastCall.modelId) :
                   Prio(LatestFor(lastCall.name)) >= Prio(LatestFor(key))
         /\ lastCall.result = Instance(LatestFor(lastCall.name).factory)

\* 'claude' was registered again with a predicate that accepts everything and
\* a higher priority: an id outside the Claude family resolves to the new factory
C13_Witness ==
    /\ NameResolved
    /\ Len(regLog) > Len(registry)
    /\ ~ClaudeCanHandleModel(ToLowerCase(lastCall.modelId))
    /\ lastCall.name = StrClaude
    /\ lastCall.result = Instance("Factory1")

\* the registry with the 'claude' entry taken out
WithoutClaude ==
    LET other(r) == r.name # StrClaude
    IN  SelectSeq(registry, other)

\* what a registry holds under a name or, failing that, under an alias
HeldUnder(name, reg) ==
    IF \E k \in 1..Len(reg) : reg[k].name = name
    THEN {reg[k] : k \in {j \in 1..Len(reg) : reg[j].name = name}}
    ELSE LET byAlias == {j \in 1..Len(reg) : name \in reg[j].aliases}
         IN  {reg[k] : k \in {j \in byAlias : \A l \in byAlias : j <= l}}

\* the claim on one registry and one model id
C14_On(m, reg) ==
    LET name  == getProviderNameForModel(m, reg)
        held  == HeldUnder(name, reg)
        found == getProviderForModel(m, reg)
    IN  /\ held # {} => \E r \in held : found = Instance(r.factory)
        /\ held = {} =>
             \A k \in 1..Len(reg) : reg[k].name = StrClaude => found = Instance(reg[k].factory)
        /\ found.kind = "Error" <=> held = {} /\ ~\E k \in 1..Len(reg) : reg[k].name = StrClaude

\* C14: getProviderForModel returns an instance made by the factory held
\* under the resolved name (or alias); with the name absent it returns an
\* instance of the 'claude' factory, and it throws only when 'claude' is not
\* registered either.  The registry never loses 'claude', so the function is
\* also taken on the registry without that entry.
C14_FactoryOfResolvedName ==
    NameResolved =>
        /\ lastCall.result = getProviderForModel(lastCall.modelId, registry)
        /\ lastCall.result.kind = "registered"
        /\ C14_On(lastCall.modelId, registry)
        /\ C14_On(lastCall.modelId, WithoutClaude)

\* an id resolved by prefix gets the factory registered at run time, and
\* without 'claude' the default name is absent and the function throws
C14_Witness ==
    /\ NameResolved
    /\ lastCall.name = ToLowerCase(StrGPT)
    /\ lastCall.result = Instance("Factory1")
    /\ getProviderForModel(<<>>, WithoutClaude).kind = "Error"

----------------------------------------------------------------------------
(* Properties of the model mapper, checked under SpecMapper *)

Mapped ==
    lastCall.op = "mapModel"

\* the entries whose localModel is the model name, letter for letter
LocalExactly(mapping, m) ==
    {k \in 1..Len(mapping) : mapping[k].localModel = m}

\* the entries whose localModel is the model name but for letter case
LocalIgnoringCase(mapping, m) ==
    {k \in 1..Len(mapping) : ToLowerCase(mapping[k].localModel) = ToLowerCase(m)}

\* the entries whose remoteModel is the model name but for letter case
RemoteIgnoringCase(mapping, m) ==
    {k \in 1..Len(mapping) : ToLowerCase(mapping[k].remoteModel) = ToLowerCase(m)}

\* C15 as stated: a model that is the localModel of exactly one entry comes
\* back from the way to the remote name and back.
C15_RoundTripAsStated ==
    Mapped /\ Cardinality(LocalExactly(lastCall.profile.modelMapping, lastCall.model)) = 1 =>
        lastCall.roundTrip = lastCall.model

\* C15, amended: the model comes back when it is the localModel of an entry,
\* no other entry has that localModel even in another letter case, and no
\* other entry has that entry's remoteModel even in another letter case.
C15_RoundTripUnambiguous ==
    Mapped =>
        LET mapping == lastCall.profile.modelMapping
            m       == lastCall.model
        IN  \A k \in LocalExactly(mapping, m) :
                /\ LocalIgnoringCase(mapping, m) = {k}
                /\ RemoteIgnoringCase(mapping, mapping[k].remoteModel) = {k}
                => lastCall.roundTrip = m

\* 'A' is mapped to 'b' behind an entry for another model and comes back as 'A'
C15_Witness ==
    /\ Mapped
    /\ lastCall.model = <<"A">>
    /\ Len(lastCall.profile.modelMapping) = 2
    /\ LocalExactly(lastCall.profile.modelMapping, lastCall.model) = {2}
    /\ LocalIgnoringCase(lastCall.profile.modelMapping, lastCall.model) = {2}
    /\ lastCall.toRemote = <<"b">>
    /\ RemoteIgnoringCase(lastCall.profile.modelMapping, <<"b">>) = {2}
    /\ lastCall.roundTrip = <<"A">>

\* the first of a non-empty set of list positions
FirstOf(S) ==
    CHOOSE k \in S : \A l \in S : k <= l

\* C16: mapModelToRemote returns the remoteModel of the first entry whose
\* localModel is the argument but for letter case, and the argument itself
\* when there is none; mapModelFromRemote does the same the other way round;
\* both return a model name on every input.
C16_FirstMatchIgnoringCase ==
    Mapped =>
        LET mapping == lastCall.profile.modelMapping
            m       == lastCall.model
            locals  == LocalIgnoringCase(mapping, m)
            remotes == RemoteIgnoringCase(mapping, m)
        IN  /\ lastCall.toRemote =
                 IF locals = {} THEN m ELSE mapping[FirstOf(locals)].remoteModel
            /\ lastCall.fromRemote =
                 IF remotes = {} THEN m ELSE mapping[FirstOf(remotes)].localModel
            /\ lastCall.toRemote \in MapperNames
            /\ lastCall.fromRemote \in MapperNames

\* two entries match 'A' but for letter case and the first one is taken
C16_Witness ==
    /\ Mapped
    /\ lastCall.model = <<"A">>
    /\ lastCall.profile.modelMapping =
         << [localModel |-> <<"a">>, remoteModel |-> <<"b">>],
            [localModel |-> <<"A">>, remoteModel |-> <<"a">>] >>
    /\ lastCall.toRemote = <<"b">>
    /\ lastCall.fromRemote = <<"A">>

----------------------------------------------------------------------------
(* Properties of the SSRF guard, checked under SpecSsrf *)

\* the guard has been called twice with one URL, first with the flag as f
\* and then with the flag as g
ValidatedWith(f, g) ==
    /\ lastCall.op = "validateBaseUrlSsrf"
    /\ lastCall.allowInternalUrls = f
    /\ lastCall.again # <<>>
    /\ lastCall.again[1].allowInternalUrls = g

IsUnsafe(result) ==
    /\ "safe" \in DOMAIN result
    /\ result.safe = FALSE

IsSafe(result) ==
    /\ "safe" \in DOMAIN result
    /\ result.safe = TRUE

IsBypassed(result) ==
    /\ IsSafe(result)
    /\ "bypassedByUser" \in DOMAIN result
    /\ result.bypassedByUser = TRUE

HostnameRejected(result) ==
    /\ IsUnsafe(result)
    /\ result.reason = "Internal/private addresses are not allowed"

SchemeOrParseRejected(result) ==
    /\ IsUnsafe(result)
    /\ result.reason \in {"Only HTTP and HTTPS protocols are allowed", "Invalid URL"}

\* C17: a URL the guard rejects for its hostname when the flag is off is safe
\* with bypassedByUser when the flag is on; a URL rejected for its scheme or
\* for not parsing is unsafe whatever the flag; a URL no pattern matches is
\* safe without bypassedByUser whatever the flag.
C17_BypassOnlyForHostnames ==
    ValidatedWith(FALSE, TRUE) =>
        LET off == lastCall.result
            on  == lastCall.again[1].result
        IN  /\ HostnameRejected(off) => IsBypassed(on)
            /\ SchemeOrParseRejected(off) => IsUnsafe(on) /\ on = off
            /\ IsSafe(off) => IsSafe(on) /\ ~IsBypassed(on) /\ ~IsBypassed(off)
            /\ HostnameRejected(off) \/ SchemeOrParseRejected(off) \/ IsSafe(off)

\* http://127.0.0.1:8080 is rejected for its hostname with the flag off and
\* let through as bypassed with the flag on
C17_Witness ==
    /\ ValidatedWith(FALSE, TRUE)
    /\ lastCall.url = <<"h", "t", "t", "p", ":", "/", "/", "1", "2", "7", ".", "0", ".",
                        "0", ".", "1", ":", "8", "0", "8", "0">>
    /\ HostnameRejected(lastCall.result)
    /\ IsBypassed(lastCall.again[1].result)

----------------------------------------------------------------------------
(* Properties of the profile service, checked under SpecStore *)

\* the call is a createProfile call whose base URL the SSRF guard rejects
\* under the input's allowInternalUrls (false when it is not given)
GuardRejects(call) ==
    /\ call.pc # "idle"
    /\ call.op = "createProfile"
    /\ IsUnsafe(validateBaseUrlSsrf(call.input.baseUrl,
                                    call.input.allowInternalUrls = {TRUE}))

LoopbackUrl ==
    <<"h", "t", "t", "p", ":", "/", "/", "1", "2", "7", ".", "0", ".", "0", ".", "1", ":", "8", "0", "8", "0">>

\* C19, step by step: a createProfile call whose base URL the guard rejects
\* ends with an error in its first step, takes no later step and leaves the
\* store as it was; a call that is let through ends with the store being the
\* list it found followed by the new profile, which has the input's base URL.
C19_Step ==
    \A c \in Callers :
        /\ svc[c].pc = "idle" /\ GuardRejects(svc'[c]) =>
               /\ svc'[c].pc = "rejected"
               /\ svc'[c].error.kind = "Error"
               /\ store' = store
        /\ GuardRejects(svc[c]) => svc'[c] = svc[c]
        /\ svc[c].pc = "idle" /\ svc'[c].pc # "idle" /\ ~GuardRejects(svc'[c]) =>
               svc'[c].pc = "getGlobalSettings" /\ store' = store
        /\ svc[c].pc # "fulfilled" /\ svc'[c].pc = "fulfilled" =>
               /\ ~GuardRejects(svc'[c])
               /\ store' = Append(store, svc'[c].result)
               /\ svc'[c].result.baseUrl = svc'[c].input.baseUrl
               /\ \A k \in 1..Len(store) : store[k].id # svc'[c].result.id

C19_RejectedBeforeAnyWrite ==
    [][C19_Step]_vars

\* http://127.0.0.1:8080 has been created with allowInternalUrls = true and
\* is the one stored profile, and the same URL without allowInternalUrls has
\* been rejected
C19_Witness ==
    \E c, d \in Callers :
        /\ svc[c].pc = "fulfilled"
        /\ svc[c].input.baseUrl = LoopbackUrl
        /\ svc[c].input.allowInternalUrls = {TRUE}
        /\ store = <<svc[c].result>>
        /\ svc[d].pc = "rejected"
        /\ svc[d].input.baseUrl = LoopbackUrl
        /\ svc[d].input.allowInternalUrls = Unset
        /\ svc[d].error.message = "Invalid base URL"

----------------------------------------------------------------------------
(* Properties of the OpenAI-compatible stream decoding, checked under SpecStream *)

\* the final message has been yielded
Completed ==
    streamPc \in {"completed", "returned"}

\* the lines of the body that are ended by a line feed
CompleteLines(b) ==
    Pop(Split(b, LF))

\* the text a line carries: that of a data line whose payload is a chunk with
\* a choice whose delta.content is not empty
TextsOfLine(line) ==
    IF /\ Len(line) = 2
       /\ line[1] = DataPrefix
       /\ line[2].t = "json"
       /\ line[2].value.choices # <<>>
       /\ line[2].value.choices[1].delta.content \notin {Unset, {<<>>}}
    THEN <<ValueOf(line[2].value.choices[1].delta.content)>>
    ELSE <<>>

RECURSIVE TextsOfLines(_)
TextsOfLines(lines) ==
    IF lines = <<>> THEN <<>>
    ELSE TextsOfLine(Head(lines)) \o TextsOfLines(Tail(lines))

RECURSIVE Concatenation(_)
Concatenation(texts) ==
    IF texts = <<>> THEN <<>> ELSE Head(texts) \o Concatenation(Tail(texts))

IsTextEvent(event) ==
    event.type = "assistant" /\ event.content.type = "text"

IsResultEvent(event) ==
    event.type = "result"

\* the texts of the text deltas yielded so far, in order
EmittedTexts ==
    LET deltas == SelectSeq(emitted, IsTextEvent)
    IN  [k \in 1..Len(deltas) |-> deltas[k].content.text]

IsPrefixOf(short, long) ==
    /\ Len(short) <= Len(long)
    /\ SubSeq(long, 1, Len(short)) = short

\* C20: the text deltas yielded are those of the data lines with a non-empty
\* delta.content, one each and in the order of the body; when the body has
\* ended one result message is yielded, it is the last message, and its text
\* is the concatenation of the deltas; a '[DONE]' line yields nothing.
C20_DeltasThenOneResult ==
    LET expected == TextsOfLines(CompleteLines(body))
        results  == SelectSeq(emitted, IsResultEvent)
    IN  /\ IsPrefixOf(EmittedTexts, expected)
        /\ Len(results) <= 1
        /\ Len(results) = 1 <=> Completed
        /\ Completed =>
               /\ EmittedTexts = expected
               /\ emitted[Len(emitted)] = ResultEvent(Concatenation(EmittedTexts))
               /\ \A k \in 1..Len(emitted) :
                      IsTextEvent(emitted[k]) \/ IsResultEvent(emitted[k])
                          \/ emitted[k].content.type = "tool_use"

\* 'Hi', then '!' with finish_reason stop, then the result 'Hi!'
C20_Witness ==
    /\ Completed
    /\ body = <<DataPrefix, JsonText(ChunkOf({<<"H", "i">>}, Unset, "null")), LF,
                DataPrefix, JsonText(ChunkOf({<<"!">>}, Unset, "stop")), LF>>
    /\ emitted = <<TextEvent(<<"H", "i">>), TextEvent(<<"!">>),
                   ResultEvent(<<"H", "i", "!">>)>>

\* a data line whose payload cannot be handled as a chunk: text that is not
\* JSON, or a chunk with a tool-call delta that is not an object
IsMalformedLine(line) ==
    /\ Len(line) = 2
    /\ line[1] = DataPrefix
    /\ line[2] # DoneText
    /\ \/ line[2].t # "json"
       \/ /\ line[2].value.choices # <<>>
          /\ ChoiceThrows(line[2].value.choices[1])

WellFormedLines(lines) ==
    SelectSeq(lines, LAMBDA line : ~IsMalformedLine(line))

\* C21: when the body has ended, the text deltas yielded are those of the
\* lines that are not malformed, the text of the result is their
\* concatenation, so that a malformed line contributes nothing, and the last
\* message is the result.
C21_MalformedLineSkipped ==
    Completed =>
        LET expected == TextsOfLines(WellFormedLines(CompleteLines(body)))
        IN  /\ EmittedTexts = expected
            /\ emitted # <<>>
            /\ emitted[Len(emitted)] = ResultEvent(Concatenation(expected))

\* the choice of a data line that is handled to its end, if it has one
HandledChoices(line) ==
    IF /\ Len(line) = 2
       /\ line[1] = DataPrefix
       /\ line[2].t = "json"
       /\ line[2].value.choices # <<>>
       /\ ~ChoiceThrows(line[2].value.choices[1])
    THEN <<line[2].value.choices[1]>>
    ELSE <<>>

\* the tool call deltas of a choice
DeltasOfChoice(choice) ==
    IF choice.delta.tool_calls = Unset THEN <<>> ELSE ValueOf(choice.delta.tool_calls)

RECURSIVE DeltasOfLines(_)
\* the tool call deltas of the lines handled to their end, in arrival order
DeltasOfLines(lines) ==
    IF lines = <<>> THEN <<>>
    ELSE LET choices == HandledChoices(Head(lines))
         IN  (IF choices = <<>> THEN <<>> ELSE DeltasOfChoice(choices[1]))
                 \o DeltasOfLines(Tail(lines))

\* the deltas for one index that carry a non-empty value in a field
DeltasWith(deltas, index, field) ==
    SelectSeq(deltas, LAMBDA d : d.index = index /\ d[field] \notin {Unset, {<<>>}})

\* the latest non-empty value of a field among the deltas for an index
LatestOf(deltas, index, field) ==
    LET with == DeltasWith(deltas, index, field)
    IN  IF with = <<>> THEN <<>> ELSE ValueOf(with[Len(with)][field])

\* the argument fragments for an index, concatenated in arrival order
ArgumentsOf(deltas, index) ==
    LET with == DeltasWith(deltas, index, "arguments")
    IN  Concatenation([k \in 1..Len(with) |-> ValueOf(with[k].arguments)])

RECURSIVE IndexesOf(_)
\* the indexes of the deltas, each once, in the order of their first arrival
IndexesOf(deltas) ==
    IF deltas = <<>> THEN <<>>
    ELSE LET before == IndexesOf(SubSeq(deltas, 1, Len(deltas) - 1))
             last   == deltas[Len(deltas)].index
         IN  IF \E k \in 1..Len(before) : before[k] = last THEN before
             ELSE Append(before, last)

\* the tool_use blocks due for the deltas that have arrived: one for each
\* index with an id and a name, its input the parsed arguments when they are
\* JSON and the raw text otherwise
ToolBlocksDue(deltas) ==
    LET indexes  == IndexesOf(deltas)
        complete == SelectSeq(indexes, LAMBDA x : /\ LatestOf(deltas, x, "id") # <<>>
                                                  /\ LatestOf(deltas, x, "name") # <<>>)
    IN  [k \in 1..Len(complete) |->
            LET arguments == ArgumentsOf(deltas, complete[k])
            IN  [type |-> "tool_use",
                 name |-> LatestOf(deltas, complete[k], "name"),
                 tool_use_id |-> LatestOf(deltas, complete[k], "id"),
                 input |-> IF arguments = <<"{", "}">>
                           THEN [parsed |-> arguments]
                           ELSE [raw |-> arguments]]]

RECURSIVE ToolBlocksOfLines(_)
\* the tool_use blocks due over the lines: those due at each line that is
\* handled to its end and has finish_reason 'stop' or 'tool_calls'
ToolBlocksOfLines(lines) ==
    IF lines = <<>> THEN <<>>
    ELSE LET earlier == ToolBlocksOfLines(SubSeq(lines, 1, Len(lines) - 1))
             choices == HandledChoices(lines[Len(lines)])
         IN  IF choices # <<>> /\ choices[1].finish_reason \in {"stop", "tool_calls"}
             THEN earlier \o ToolBlocksDue(DeltasOfLines(lines))
             ELSE earlier

IsToolEvent(event) ==
    event.type = "assistant" /\ event.content.type = "tool_use"

\* the tool_use blocks yielded so far, in order
EmittedToolBlocks ==
    LET events == SelectSeq(emitted, IsToolEvent)
    IN  [k \in 1..Len(events) |-> events[k].content]

\* C22: tool call deltas are accumulated by index, the id and the name being
\* the latest non-empty ones and the arguments the fragments in arrival order;
\* each chunk that is handled to its end with finish_reason 'stop' or
\* 'tool_calls' yields a tool_use block for every accumulated call that has an
\* id and a name and for no other, with the raw text as input when the
\* arguments are not JSON; and the stream still ends with the result.
C22_ToolCallsAccumulatedByIndex ==
    LET due == ToolBlocksOfLines(CompleteLines(body))
    IN  /\ IsPrefixOf(EmittedToolBlocks, due)
        /\ Completed =>
               /\ EmittedToolBlocks = due
               /\ IsResultEvent(emitted[Len(emitted)])

\* index 0 gets the id c1, the name f and '{', then the id c9 and '}' in a
\* chunk that also gives index 1 an id and no name and has finish_reason
\* tool_calls: one block, for c9 and f with the arguments '{}', is yielded
C22_Witness ==
    /\ Completed
    /\ body = <<DataPrefix,
                JsonText(ChunkOf(Unset, {<< ToolDelta(0, {<<"c", "1">>}, {<<"f">>},
                                                      {<<"{">>}) >>}, "null")), LF,
                DataPrefix,
                JsonText(ChunkOf(Unset, {<< ToolDelta(0, {<<"c", "9">>}, Unset, {<<"}">>}),
                                            ToolDelta(1, {<<"c", "2">>}, Unset, Unset) >>},
                                 "tool_calls")), LF>>
    /\ EmittedToolBlocks = << [type |-> "tool_use", name |-> <<"f">>,
                               tool_use_id |-> <<"c", "9">>,
                               input |-> [parsed |-> <<"{", "}">>]] >>

\* the decoder before the first read
FreshDecoder ==
    [accumulatedContent |-> <<>>, accumulatedToolCalls |-> <<>>, out |-> <<>>,
     warnings |-> <<>>]

\* what the lines of a text that are ended by a line feed give when they are
\* worked through in one go
DecodedAtOnce(text) ==
    ProcessLines(FreshDecoder, CompleteLines(text))

\* the messages yielded and to be yielded that are not the result
DecodedSoFar ==
    SelectSeq(emitted, LAMBDA event : ~IsResultEvent(event)) \o pending

\* C36: the decoding does not depend on how the body is split into reads.
\* Whatever the reads were, what has been decoded of the part of the body read
\* so far (the messages, the accumulated text and tool calls, the warnings)
\* is what its newline-terminated lines give when worked through once, in
\* order, in one go, the incomplete trailing line being in the buffer; and
\* when the body has ended the messages yielded are those of the whole body
\* followed by the result with the whole accumulated text.
C36_SplitIndependent ==
    request.type = "openai-compatible" /\ streamPc \in {"read", "yield", "completed", "returned"} =>
        LET received == SubSeq(body, 1, readPos)
            atOnce   == DecodedAtOnce(received)
            parts    == Split(received, LF)
        IN  /\ DecodedSoFar = atOnce.out
            /\ accumulatedContent = atOnce.accumulatedContent
            /\ accumulatedToolCalls = atOnce.accumulatedToolCalls
            /\ streamLog = atOnce.warnings
            /\ buffer = parts[Len(parts)]
            /\ Completed =>
                   emitted = DecodedAtOnce(body).out
                                 \o <<ResultEvent(DecodedAtOnce(body).accumulatedContent)>>

\* the line of 'Hi' has been read and yielded, and the second read has ended
\* behind the 'data: ' of the second line, before its payload
C36_Witness ==
    /\ streamPc = "read"
    /\ Len(body) = 6
    /\ readPos = 4
    /\ buffer = <<DataPrefix>>
    /\ body[5] = JsonText(ChunkOf({<<"!">>}, Unset, "stop"))
    /\ emitted = <<TextEvent(<<"H", "i">>)>>

----------------------------------------------------------------------------
(* Properties of both translators, checked under SpecTranslators *)

IsOpenAI ==
    request.type = "openai-compatible"

IsAnthropic ==
    request.type = "anthropic-compatible"

\* the outbound call of the generator is under way: the request is out, the
\* body of the response has not ended, or the SDK's stream has not ended
InFlight ==
    \/ streamPc = "fetch"
    \/ IsOpenAI /\ streamPc \in {"read", "yield"} /\ responseBody \in {"readable", "errored"}
    \/ IsAnthropic /\ streamPc \in {"query", "yield"}

\* the generator has ended without throwing
EndedNormally ==
    streamPc \in {"completed", "returned"}

\* C23: for either translator, once profile.timeout has gone by on a call
\* that is in flight the call is aborted, and it does not end normally.
C23_TimeoutIsHardCap ==
    /\ [](elapsed /\ InFlight => signal.aborted)
    /\ [][elapsed /\ InFlight => ~EndedNormally']_vars

\* C24: in an OpenAI-compatible call whose controller has been aborted while
\* the call was in flight, by the caller or by the timer, no further message
\* is yielded and the generator does not end normally; the messages yielded
\* before stay as they are.
C24_NothingAfterAbort ==
    [][IsOpenAI /\ signal.aborted /\ InFlight =>
           /\ emitted' = emitted
           /\ ~EndedNormally']_vars

C26_OnlyAllowlistedEnvironment ==
    sdkOptions # Unset =>
        LET env == ValueOf(sdkOptions).env
        IN  /\ DOMAIN env \subseteq
                   {"PATH", "HOME", "SHELL", "TERM", "USER", "LANG", "LC_ALL",
                    "ANTHROPIC_BASE_URL", "ANTHROPIC_API_KEY"}
            /\ env["ANTHROPIC_BASE_URL"] = request.profile.baseUrl
            /\ env["ANTHROPIC_API_KEY"] = request.profile.apiKey
            /\ \A key \in DOMAIN env \ {"ANTHROPIC_BASE_URL", "ANTHROPIC_API_KEY"} :
                   key \in DOMAIN request.processEnv /\ env[key] = request.processEnv[key]

\* process.env holds PATH, a cloud secret and an ANTHROPIC_API_KEY of its own:
\* PATH and the two overrides are what the SDK gets
C26_Witness ==
    /\ sdkOptions # Unset
    /\ DOMAIN request.processEnv = {"PATH", "AWS_SECRET_ACCESS_KEY", "ANTHROPIC_API_KEY"}
    /\ request.processEnv["ANTHROPIC_API_KEY"] = "sk-process"
    /\ DOMAIN ValueOf(sdkOptions).env = {"PATH", "ANTHROPIC_BASE_URL", "ANTHROPIC_API_KEY"}
    /\ ValueOf(sdkOptions).env["ANTHROPIC_API_KEY"] = "sk-profile"

----------------------------------------------------------------------------
(* Properties of the connection test, checked under SpecConnectionTest *)

\* the test has returned a result
TestFulfilled ==
    test.pc = "fulfilled"

\* a response has arrived in the test, with this status
TestAnswered(status) ==
    /\ "status" \in DOMAIN test
    /\ test.status = {status}

\* the timer of the test has run its callback
TestTimedOut ==
    /\ "timer" \in DOMAIN test
    /\ test.timer.state = "fired"

----------------------------------------------------------------------------
(* Properties of createProfile, checked under SpecStore, and of
   reorderProfiles, checked under SpecReorder *)

\* C29, step by step: when a createProfile call whose input has no priority
\* returns, the priority of its profile is greater than that of every profile
\* the store held before the write, it is 1 when the store was empty, and in
\* the store as written every other profile has a smaller priority.
C29_Step ==
    \A c \in Callers :
        /\ svc[c].pc = "updateGlobalSettings"
        /\ svc[c].op = "createProfile"
        /\ svc[c].input.priority = Unset
        /\ svc'[c].pc = "fulfilled"
        => LET created == svc'[c].result
           IN  /\ \A k \in 1..Len(store) : created.priority > store[k].priority
               /\ store = <<>> => created.priority = 1
               /\ \E k \in 1..Len(store') : store'[k] = created
               /\ \A k \in 1..Len(store') :
                      store'[k] # created => store'[k].priority < created.priority

C29_DefaultPriorityIsHighest ==
    [][C29_Step]_vars

\* a profile created with priority 5 is in the store, and the profile created
\* after it without a priority has priority 6
C29_Witness ==
    /\ Len(store) = 2
    /\ store[1].priority = 5
    /\ store[2].priority = 6
    /\ \E c \in Callers :
           /\ svc[c].pc = "fulfilled"
           /\ svc[c].op = "createProfile"
           /\ svc[c].input.priority = Unset
           /\ svc[c].result = store[2]

\* the place of an id in orderedIds, counted from 0 as the claim counts it:
\* the first place at which the id stands
PlaceIn(orderedIds, id) ==
    CHOOSE n \in 0..(Len(orderedIds) - 1) :
        /\ orderedIds[n + 1] = id
        /\ \A m \in 0..(n - 1) : orderedIds[m + 1] # id

Listed(orderedIds, id) ==
    \E n \in 1..Len(orderedIds) : orderedIds[n] = id

StoredIds(list) ==
    {list[k].id : k \in 1..Len(list)}

\* the step in which reorderProfiles writes the list and returns it
C30_Step ==
    /\ svc[ReorderCall].pc = "updateGlobalSettings"
    /\ svc[ReorderCall].op = "reorderProfiles"
    /\ svc'[ReorderCall].pc = "fulfilled"
    => LET orderedIds == svc[ReorderCall].orderedIds
           written    == store'
       IN  /\ svc'[ReorderCall].result = written
           /\ Len(written) = Len(store)
           /\ StoredIds(written) = StoredIds(store)
           /\ \A k \in 1..Len(store) :
                  \E l \in 1..Len(written) :
                      written[l] =
                          IF Listed(orderedIds, store[k].id)
                          THEN [store[k] EXCEPT !.priority =
                                    Len(orderedIds) - PlaceIn(orderedIds, store[k].id)]
                          ELSE store[k]
           /\ \A k, l \in 1..Len(written) :
                  /\ Listed(orderedIds, written[k].id)
                  /\ Listed(orderedIds, written[l].id)
                  /\ PlaceIn(orderedIds, written[k].id) < PlaceIn(orderedIds, written[l].id)
                  => /\ written[k].priority > written[l].priority
                     /\ k < l
           /\ \A k, l \in 1..Len(written) :
                  k < l => written[k].priority >= written[l].priority

----------------------------------------------------------------------------
(* Properties of getProviderForModelWithProfiles, checked under SpecSelect *)

Selected ==
    lastCall.op = "getProviderForModelWithProfiles"

\* the model id is 'profile:' followed by the id and then by nothing or by a
\* slash
NamesProfile(model, id) ==
    LET text == IdText[id]
    IN  /\ Len(model) >= 8 + Len(text)
        /\ SubSeq(model, 1, 8) = StrProfileColon
        /\ SubSeq(model, 9, 8 + Len(text)) = text
        /\ Len(model) > 8 + Len(text) => model[9 + Len(text)] = "/"

\* the places of the profiles each of the four rules finds, rule by rule
RuleFinds(model, profs, preferredProfileType) ==
    << {k \in 1..Len(profs) : NamesProfile(model, profs[k].id)},
       IF preferredProfileType = Unset
       THEN {}
       ELSE UNION {ActiveOfType(profs, t) : t \in preferredProfileType},
       IF IsClaudeFamily(model) THEN ActiveOfType(profs, "anthropic-compatible") ELSE {},
       IF IsOpenAILike(model) THEN ActiveOfType(profs, "openai-compatible") ELSE {} >>

\* the provider is the proxy provider of the profile's type, made from it
BoundTo(provider, profile) ==
    /\ provider.kind \in {"AnthropicProxyProvider", "OpenAIProxyProvider"}
    /\ provider.kind = "AnthropicProxyProvider" <=> profile.type = "anthropic-compatible"
    /\ provider.profile = profile

IsProxyProvider(provider) ==
    provider.kind \in {"AnthropicProxyProvider", "OpenAIProxyProvider"}

\* C37: neither the provider getProviderForModelWithProfiles returns nor any
\* provider of the chain getFallbackProviders builds is made from a profile
\* whose isActive is false.
C37_InactiveNeverUsed ==
    Selected =>
        /\ IsProxyProvider(lastCall.result) => lastCall.result.profile.isActive
        /\ \A k \in 1..Len(lastCall.chain) :
               IsProxyProvider(lastCall.chain[k]) => lastCall.chain[k].profile.isActive

\* C38: for a model id that does not start with 'profile:' and no preferred
\* type, the provider getProviderForModelWithProfiles returns is the first
\* provider of the chain getFallbackProviders builds from the same model id
\* and profiles.
C38_PrimaryIsHeadOfChain ==
    /\ Selected
    /\ ~StartsWith(lastCall.modelId, StrProfileColon)
    /\ lastCall.preferredProfileType = Unset
    => lastCall.result = lastCall.chain[1]

----------------------------------------------------------------------------
(* Properties of the operations that write the profile list, checked under
   SpecProfiles *)

\* C32: every profile in the store passes the SSRF guard with the
\* allowInternalUrls it is stored with.
C32_StoredProfilesAreSafe ==
    \A k \in 1..Len(store) :
        validateBaseUrlSsrf(store[k].baseUrl, store[k].allowInternalUrls).safe

\* the step of a call from its settings read
ReadStep(c, op) ==
    /\ svc[c].pc = "getGlobalSettings"
    /\ svc[c].op = op
    /\ svc'[c] # svc[c]

\* the call has failed with an error and the profile list is as it was
FailsAndKeeps(c) ==
    /\ svc'[c].pc = "rejected"
    /\ svc'[c].error.kind = "Error"
    /\ store' = store

\* the input of updateProfile names a stored profile and gives a base URL
\* other than the stored one that the SSRF guard rejects, with the
\* allowInternalUrls of the input or else of the stored profile
GivesRejectedUrl(input) ==
    /\ FindIndex(store, input.id) # 0
    /\ input.baseUrl # Unset
    /\ LET existing == store[FindIndex(store, input.id)]
           baseUrl  == ValueOf(input.baseUrl)
       IN  /\ baseUrl # existing.baseUrl
           /\ ~validateBaseUrlSsrf(baseUrl, OrElse(input.allowInternalUrls,
                                                   existing.allowInternalUrls)).safe

C39_Step ==
    \A c \in Callers :
        /\ ReadStep(c, "updateProfile") /\ FindIndex(store, svc[c].input.id) = 0
               => FailsAndKeeps(c)
        /\ ReadStep(c, "deleteProfile") /\ FindIndex(store, svc[c].id) = 0
               => FailsAndKeeps(c)
        /\ ReadStep(c, "updateProfile") /\ GivesRejectedUrl(svc[c].input)
               => FailsAndKeeps(c)
        /\ ReadStep(c, "saveConnectionTestResult") /\ FindIndex(store, svc[c].profileId) = 0
               => /\ svc'[c].pc = "fulfilled"
                  /\ store' = store
                  /\ serviceLog' = serviceLog

\* C39: when updateProfile or deleteProfile reads a list that does not hold
\* the id, or updateProfile is given a new base URL that the SSRF guard
\* rejects, the call fails with an error and the profile list is as it was;
\* when saveConnectionTestResult reads a list that does not hold the id, it
\* returns and the profile list is as it was; and a call that has failed
\* writes nothing later.
C39_FailuresLeaveStore ==
    [][C39_Step /\ \A c \in Callers : svc[c].pc = "rejected" => svc'[c] = svc[c]]_vars

----------------------------------------------------------------------------
(* Properties of calls that run beside each other, checked under
   SpecInterleaved *)

\* every call has returned or thrown, or was never made
AllSettled ==
    \A c \in ServiceCalls : svc[c].pc \in {"idle", "fulfilled", "rejected"}

Fulfilled(c, op) ==
    /\ svc[c].pc = "fulfilled"
    /\ svc[c].op = op

\* C33: when every call has completed, the profile of each createProfile call
\* that returned is in the store, and the profile of each updateProfile call
\* that returned has in the store the allowInternalUrls the update gave it.
C33_NoLostUpdate ==
    AllSettled =>
        \A c \in Callers :
            /\ Fulfilled(c, "createProfile")
                   => \E k \in 1..Len(store) : store[k].id = svc[c].result.id
            /\ Fulfilled(c, "updateProfile")
                   => \E k \in 1..Len(store) :
                          /\ store[k].id = svc[c].result.id
                          /\ store[k].allowInternalUrls = svc[c].result.allowInternalUrls

----------------------------------------------------------------------------
(* Properties of the timeout of the OpenAI-compatible translator, checked
   under SpecCandidates *)

\* the caller has passed a controller of its own
CallerSupplied ==
    request.type = "openai-compatible" /\ request.options.abortController # Unset

\* the generator has ended: it has returned or thrown
Ended ==
    streamPc \in {"failed", "returned"}

\* C34: a timer that fires leaves the signal the caller supplied un-fired; a
\* call that is started on the next candidate with the options of the same
\* caller starts with a signal that is not aborted (unless the caller has
\* aborted it); and once a call has ended, by returning, by throwing or by
\* the consumer leaving the stream, its timer is no longer set and does not
\* fire.
C34_TimeoutSparesCallerSignal ==
    /\ [](CallerSupplied => signal.by # "timeout")
    /\ [][streamPc = "failed" /\ streamPc' = "fetch" =>
              (signal'.aborted => signal'.by = "caller")]_vars
    /\ [](Ended => timer.state # "armed")
    /\ [][Ended => timer' = timer \/ ~Ended']_vars

----------------------------------------------------------------------------
(* Properties of the tool calls of one stream, checked under SpecToolCalls *)

\* the place in accumulatedToolCalls, which keeps the order in which the
\* indexes first appeared, of the call a tool_use block was made of
PlaceOfBlock(block) ==
    CHOOSE k \in 1..Len(accumulatedToolCalls) : accumulatedToolCalls[k].name = block.name

\* C35: within one stream every accumulated tool call is yielded as a
\* tool_use block at most once, however many chunks have finish_reason 'stop'
\* or 'tool_calls' and wherever they are, and the blocks are yielded in the
\* order in which their indexes first appeared.
C35_ToolCallEmittedOnce ==
    \A j, k \in 1..Len(EmittedToolBlocks) :
        j < k => PlaceOfBlock(EmittedToolBlocks[j]) < PlaceOfBlock(EmittedToolBlocks[k])

=============================================================================
